---- MODULE Spec2Model ----
(***************************************************************************)
(* Model of src/main.py: the deal-pipeline reconciliation (process_company *)
(* and its helpers) and the stage-staleness scan (get_deals_needing_nudge) *)
(* against the Affinity CRM, which holds all shared state.                 *)
(*                                                                         *)
(* Text that the code lower-cases or searches by substring (organization   *)
(* names, domains, field names) is a sequence of one-character strings, so *)
(* that str.lower() and the `in` operator are computed, not assumed.       *)
(* Stage labels are only compared for equality and are TLA+ strings.       *)
(***************************************************************************)
EXTENDS Integers, Sequences, FiniteSets, TLC

VARIABLES orgs, entries, fieldValues, schema, now, last, nudges, ncalls, nscans,
          resolved, msg, race

vars == <<orgs, entries, fieldValues, schema, now, last, nudges, ncalls, nscans,
          resolved, msg, race>>

----------------------------------------------------------------------------
(* Python strings                                                          *)

\* str.lower() on one character
LowerChar(ch) ==
    CASE ch = "A" -> "a"
      [] ch = "B" -> "b"
      [] ch = "C" -> "c"
      [] ch = "D" -> "d"
      [] ch = "E" -> "e"
      [] ch = "F" -> "f"
      [] ch = "G" -> "g"
      [] ch = "H" -> "h"
      [] ch = "I" -> "i"
      [] ch = "J" -> "j"
      [] ch = "K" -> "k"
      [] ch = "L" -> "l"
      [] ch = "M" -> "m"
      [] ch = "N" -> "n"
      [] ch = "O" -> "o"
      [] ch = "P" -> "p"
      [] ch = "Q" -> "q"
      [] ch = "R" -> "r"
      [] ch = "S" -> "s"
      [] ch = "T" -> "t"
      [] ch = "U" -> "u"
      [] ch = "V" -> "v"
      [] ch = "W" -> "w"
      [] ch = "X" -> "x"
      [] ch = "Y" -> "y"
      [] ch = "Z" -> "z"
      [] OTHER -> ch

\* str.upper() on one character
UpperChar(ch) ==
    CASE ch = "a" -> "A"
      [] ch = "b" -> "B"
      [] ch = "c" -> "C"
      [] ch = "d" -> "D"
      [] ch = "e" -> "E"
      [] ch = "f" -> "F"
      [] ch = "g" -> "G"
      [] ch = "h" -> "H"
      [] ch = "i" -> "I"
      [] ch = "j" -> "J"
      [] ch = "k" -> "K"
      [] ch = "l" -> "L"
      [] ch = "m" -> "M"
      [] ch = "n" -> "N"
      [] ch = "o" -> "O"
      [] ch = "p" -> "P"
      [] ch = "q" -> "Q"
      [] ch = "r" -> "R"
      [] ch = "s" -> "S"
      [] ch = "t" -> "T"
      [] ch = "u" -> "U"
      [] ch = "v" -> "V"
      [] ch = "w" -> "W"
      [] ch = "x" -> "X"
      [] ch = "y" -> "Y"
      [] ch = "z" -> "Z"
      [] OTHER -> ch

\* str.lower()
Lower(s) == [i \in 1..Len(s) |-> LowerChar(s[i])]

\* Python `t in s` on strings (the empty string is in every string)
Contains(s, t) ==
    \E i \in 0..(Len(s) - Len(t)) : SubSeq(s, i + 1, i + Len(t)) = t

\* Python truthiness of a string or None (None is modelled as the empty string)
Truthy(s) == s # <<>>

None == <<>>

----------------------------------------------------------------------------
(* Regular expressions of main.py, on ASCII text                           *)

IsLetter(ch) == LowerChar(ch) # ch \/ UpperChar(ch) # ch

Digits == {"0", "1", "2", "3", "4", "5", "6", "7", "8", "9"}

\* \w
WordChar(ch) == IsLetter(ch) \/ ch \in Digits \/ ch = "_"

\* [a-zA-Z0-9-]
HostChar(ch) == IsLetter(ch) \/ ch \in Digits \/ ch = "-"

\* [a-zA-Z0-9.-]
HostTailChar(ch) == HostChar(ch) \/ ch = "."

\* \s
Whitespace == {" "}

\* t occurs in s at position i
StartsAt(s, i, t) ==
    /\ i >= 1
    /\ i + Len(t) - 1 <= Len(s)
    /\ SubSeq(s, i, i + Len(t) - 1) = t

\* the end of the longest run of marked positions that starts at i (i - 1
\* when position i is not marked); `marks` tells of each character of a
\* string whether it is of a class
RunEnd(marks, i) ==
    LET stops == {j \in i..Len(marks) : ~marks[j]}
    IN  IF stops = {} THEN Len(marks)
        ELSE (CHOOSE j \in stops : \A k \in stops : j <= k) - 1

WordMarks(s) == [j \in 1..Len(s) |-> WordChar(s[j])]
HostMarks(s) == [j \in 1..Len(s) |-> HostChar(s[j])]
HostTailMarks(s) == [j \in 1..Len(s) |-> HostTailChar(s[j])]

\* \b between s[i - 1] and s[i]
IsWordAt(s, k) == k >= 1 /\ k <= Len(s) /\ WordChar(s[k])

Boundary(s, i) == IsWordAt(s, i - 1) # IsWordAt(s, i)

sHttps == <<"h", "t", "t", "p", "s", ":", "/", "/">>
sHttp == <<"h", "t", "t", "p", ":", "/", "/">>
sWww == <<"w", "w", "w", ".">>

\* the length of a match of https?:// at i, 0 for none
SchemeLen(s, i) ==
    IF StartsAt(s, i, sHttps) THEN Len(sHttps)
    ELSE IF StartsAt(s, i, sHttp) THEN Len(sHttp)
    ELSE 0

\* the least member of a set of positions
Leftmost(S) == CHOOSE i \in S : \A j \in S : i <= j

\* `a or b` on two strings
OrElse(a, b) == IF a # <<>> THEN a ELSE b

\* a match of ([a-zA-Z0-9-]+\.[a-zA-Z0-9.-]+) at q, <<>> for none: the first
\* run ends at e1 and the second at e2
HostUpTo(s, q, e1, e2) == IF e2 >= e1 + 2 THEN SubSeq(s, q, e2) ELSE <<>>

HostAfter(s, q, e1) ==
    IF e1 >= q /\ e1 + 2 <= Len(s) /\ s[e1 + 1] = "."
    THEN HostUpTo(s, q, e1, RunEnd(HostTailMarks(s), e1 + 2))
    ELSE <<>>

HostFrom(s, q) == HostAfter(s, q, RunEnd(HostMarks(s), q))

\* (?:www\.)? and the group at p: the www. is taken when the rest then matches
HostAfterScheme(s, p) ==
    OrElse(IF StartsAt(s, p, sWww) THEN HostFrom(s, p + Len(sWww)) ELSE <<>>,
           HostFrom(s, p))

\* a match of url_pattern at i: group 1, <<>> for none
UrlGroupAt(s, i) ==
    IF SchemeLen(s, i) = 0 THEN <<>> ELSE HostAfterScheme(s, i + SchemeLen(s, i))

UrlGroupFirst(s, hits) == IF hits = {} THEN <<>> ELSE UrlGroupAt(s, Leftmost(hits))

\* re.search(url_pattern, text): group 1 of the leftmost match
UrlDomain(s) == UrlGroupFirst(s, {i \in 1..Len(s) : UrlGroupAt(s, i) # <<>>})

\* the alternatives of domain_pattern, in its order
TLDs == << <<"c", "o", "m">>,
          <<"i", "o">>,
          <<"c", "o">>,
          <<"a", "i">>,
          <<"o", "r", "g">>,
          <<"n", "e", "t">>,
          <<"a", "p", "p">>,
          <<"v", "c">>,
          <<"x", "y", "z">>,
          <<"t", "e", "c", "h">>,
          <<"d", "e", "v">> >>

\* the alternatives that match at p and end at a \b
TldHits(s, p) ==
    {k \in 1..Len(TLDs) : StartsAt(s, p, TLDs[k]) /\ Boundary(s, p + Len(TLDs[k]))}

BareWith(s, i, e1, hits) ==
    IF hits = {} THEN <<>> ELSE SubSeq(s, i, e1 + 1 + Len(TLDs[Leftmost(hits)]))

BareAfter(s, i, e1) ==
    IF Boundary(s, i) /\ e1 >= i /\ e1 + 1 <= Len(s) /\ s[e1 + 1] = "."
    THEN BareWith(s, i, e1, TldHits(s, e1 + 2))
    ELSE <<>>

\* a match of domain_pattern at i: group 1, <<>> for none
BareDomainAt(s, i) == BareAfter(s, i, RunEnd(HostMarks(s), i))

BareDomainFirst(s, hits) == IF hits = {} THEN <<>> ELSE BareDomainAt(s, Leftmost(hits))

\* re.search(domain_pattern, text): group 1 of the leftmost match
BareDomain(s) == BareDomainFirst(s, {i \in 1..Len(s) : BareDomainAt(s, i) # <<>>})

\* re.search(r'https?://[^\s]+', text)
HasUrl(s) ==
    \E i \in 1..Len(s) :
        /\ SchemeLen(s, i) > 0
        /\ i + SchemeLen(s, i) <= Len(s)
        /\ s[i + SchemeLen(s, i)] \notin Whitespace

\* the positions where a word of s starts; a word is a longest run of \w
WordStarts(s) == {i \in 1..Len(s) : IsWordAt(s, i) /\ ~IsWordAt(s, i - 1)}

\* the word that starts at i
WordFrom(s, i) == SubSeq(s, i, RunEnd(WordMarks(s), i))

\* the characters of s at the positions of `keep`, in order
RECURSIVE Pick(_, _, _)
Pick(s, keep, k) ==
    IF k > Len(s) THEN <<>>
    ELSE (IF k \in keep THEN <<s[k]>> ELSE <<>>) \o Pick(s, keep, k + 1)

\* re.sub(r'\b(w1|w2|...)\b', '', s, flags=re.IGNORECASE) for words of \w
RemoveWords(s, words) ==
    LET hits == {i \in WordStarts(s) : Lower(WordFrom(s, i)) \in words}
        gone == UNION {i..(i + Len(WordFrom(s, i)) - 1) : i \in hits}
    IN  Pick(s, (1..Len(s)) \ gone, 1)

\* re.search(r'\b(missed|miss|missing)\b', text.lower())
HasWord(s, words) ==
    \E i \in WordStarts(s) : WordFrom(s, i) \in words

\* re.sub(r'https?://(?:www\.)?', '', s)
RECURSIVE RemoveSchemes(_)
RemoveSchemes(s) ==
    IF s = <<>> THEN <<>>
    ELSE LET n == SchemeLen(s, 1)
             m == IF StartsAt(s, n + 1, sWww) THEN n + Len(sWww) ELSE n
         IN  IF n > 0 THEN RemoveSchemes(SubSeq(s, m + 1, Len(s)))
             ELSE <<s[1]>> \o RemoveSchemes(Tail(s))

\* re.sub(r'\([^)]*\)', '', s)
RECURSIVE RemoveParens(_)
RemoveParens(s) ==
    IF s = <<>> THEN <<>>
    ELSE LET closes == {j \in 2..Len(s) : s[j] = ")"}
         IN  IF s[1] = "(" /\ closes # {}
             THEN RemoveParens(SubSeq(s, (CHOOSE j \in closes : \A k \in closes : j <= k) + 1,
                                      Len(s)))
             ELSE <<s[1]>> \o RemoveParens(Tail(s))

\* str.strip(chars)
Strip(s, chars) ==
    LET kept == {i \in 1..Len(s) : s[i] \notin chars}
    IN  IF kept = {} THEN <<>>
        ELSE SubSeq(s, CHOOSE i \in kept : \A j \in kept : i <= j,
                       CHOOSE i \in kept : \A j \in kept : j <= i)

\* s.split(sep)[0]
SplitFirst(s, sep) ==
    LET at == {i \in 1..Len(s) : s[i] = sep}
    IN  IF at = {} THEN s
        ELSE SubSeq(s, 1, (CHOOSE i \in at : \A j \in at : i <= j) - 1)

\* str.title(): a letter that follows a letter is lowered, any other letter
\* is raised
Title(s) ==
    [i \in 1..Len(s) |->
        IF ~IsLetter(s[i]) THEN s[i]
        ELSE IF i > 1 /\ IsLetter(s[i - 1]) THEN LowerChar(s[i])
        ELSE UpperChar(s[i])]

----------------------------------------------------------------------------
(* extract_company_info                                                    *)

\* missed|miss|missing|we|this|one|was|a
StopWords == { <<"m", "i", "s", "s", "e", "d">>,
               <<"m", "i", "s", "s">>,
               <<"m", "i", "s", "s", "i", "n", "g">>,
               <<"w", "e">>,
               <<"t", "h", "i", "s">>,
               <<"o", "n", "e">>,
               <<"w", "a", "s">>,
               <<"a">> }

\* missed|miss|missing
MissedWords == { <<"m", "i", "s", "s", "e", "d">>, <<"m", "i", "s", "s">>, <<"m", "i", "s", "s", "i", "n", "g">> }

\* the characters of .strip(' -:/') and its two dashes, which no text drawn
\* here contains
StripChars == {" ", "-", ":", "/"}

\* the domain found: by url_pattern, else by domain_pattern, else None (<<>>)
FoundDomain(text) == OrElse(UrlDomain(text), BareDomain(text))

\* a cleaning that only trims whitespace
CleanName_TrimOnly(text) == Strip(text, Whitespace)

\* the text stripped of schemes, parentheses, stop words and punctuation
CleanName(text) ==
    Strip(RemoveWords(RemoveParens(RemoveSchemes(Strip(text, Whitespace))), StopWords),
          StripChars)

\* the name when a domain was found: the first label of the domain when the
\* cleaned text is empty or is the domain
NameWithDomain(cleaned, domain) ==
    [company_name |-> IF cleaned = <<>> \/ cleaned = domain
                      THEN Title(SplitFirst(domain, ".")) ELSE cleaned,
     domain |-> domain]

NameAndDomain(cleaned, found) ==
    IF found = <<>> THEN [company_name |-> cleaned, domain |-> <<>>]
    ELSE NameWithDomain(cleaned, SplitFirst(found, "/"))

\* [company_name, domain]; a domain of None is written <<>>
extract_company_info(text) == NameAndDomain(CleanName(text), FoundDomain(text))

----------------------------------------------------------------------------
(* Configuration: module-level constants of main.py                        *)

STATUS_FIELD_ID == 4927710
OWNERS_FIELD_ID == 4927712
PASS_REASON_FIELD_ID == 4944316
MISSED_STATUS_VALUE_ID == 20689035

\* AFFINITY_LIST_ID (an environment value); OtherListId is any other list
AFFINITY_LIST_ID == 1
OtherListId == AFFINITY_LIST_ID + 1

\* Slack ID -> Affinity person ID
SLACK_TO_AFFINITY_PERSON ==
    [u \in {"U02SC43GEH4", "U03HP4WKP62", "U07S6CLHPL1", "U08840SFVN1"} |->
        CASE u = "U02SC43GEH4" -> 217635093
          [] u = "U03HP4WKP62" -> 217635937
          [] u = "U07S6CLHPL1" -> 217637423
          [] u = "U08840SFVN1" -> 217635950]

\* Stage nudge thresholds in days
STAGE_THRESHOLDS ==
    [s \in {"First Meeting", "Engaged", "Need to Pass", "On Hold"} |->
        CASE s = "First Meeting" -> 14
          [] s = "Engaged" -> 21
          [] s = "Need to Pass" -> 14
          [] s = "On Hold" -> 84]

----------------------------------------------------------------------------
(* Values the CRM returns                                                  *)

\* a field value: a dict with "text", an integer, another scalar, or None
TextValue(t) == [kind |-> "text", text |-> t, num |-> 0]
IntValue(n) == [kind |-> "int", text |-> "", num |-> n]
StrValue(t) == [kind |-> "str", text |-> t, num |-> 0]
NoValue == [kind |-> "none", text |-> "", num |-> 0]

\* Python truthiness of a field value
ValueTruthy(v) ==
    CASE v.kind = "text" -> TRUE
      [] v.kind = "int" -> v.num # 0
      [] v.kind = "str" -> v.text # ""
      [] OTHER -> FALSE

\* Python str(value) for a scalar
StrOf(v) == IF v.kind = "int" THEN ToString(v.num) ELSE v.text

\* a timestamp: an ISO string that parses to instant t, one that does not
\* parse, or None
Time(t) == [k |-> "ts", t |-> t]
BadTime == [k |-> "bad", t |-> 0]
NoTime == [k |-> "none", t |-> 0]

\* the three names the stage resolver accepts, lower-cased
nStage == <<"s", "t", "a", "g", "e">>
nStatus == <<"s", "t", "a", "t", "u", "s">>
nDealStage == <<"d", "e", "a", "l", " ", "s", "t", "a", "g", "e">>
nOwners == <<"o", "w", "n", "e", "r", "s">>

\* the person table of the CRM: id -> (first_name, last_name)
Persons ==
    [p \in {217635093, 217635937} |->
        IF p = 217635093 THEN "Emma McDonagh" ELSE "Shomik Dutta"]

----------------------------------------------------------------------------
(* AffinityClient: what each call returns from the CRM state               *)

\* GET /organizations?term= : the organizations the CRM matches to the term
\* (by name, by primary domain or by one of its other domains), in CRM order
search_organization(os, term) ==
    SelectSeq(os, LAMBDA o :
        \/ Contains(Lower(o.name), Lower(term))
        \/ Contains(Lower(o.domain), Lower(term))
        \/ \E d \in o.domains : Contains(Lower(d), Lower(term)))

\* GET /organizations/{id} : the "list_entries" of the organization
get_organization(es, org_id) ==
    SelectSeq(es, LAMBDA e : e.entity_id = org_id)

\* GET /field-values?organization_id=
get_field_values(fvs, organization_id) ==
    SelectSeq(fvs, LAMBDA fv : fv.entity_id = organization_id)

\* GET /field-values?list_entry_id=
get_list_entry_field_values(fvs, list_entry_id) ==
    SelectSeq(fvs, LAMBDA fv : fv.list_entry_id = list_entry_id)

\* POST /organizations
create_organization(os, name, domain) ==
    Append(os, [id |-> Len(os) + 1, name |-> name,
                domain |-> IF Truthy(domain) THEN domain ELSE <<>>,
                domains |-> {}])

\* POST /lists/{list_id}/list-entries
add_to_list(es, list_id, organization_id, t) ==
    Append(es, [id |-> Len(es) + 1, list_id |-> list_id,
                entity_id |-> organization_id, created_at |-> Time(t)])

\* POST /field-values
set_field_value(fvs, field_id, entity_id, list_entry_id, value, t) ==
    Append(fvs, [field_id |-> field_id, entity_id |-> entity_id,
                 list_entry_id |-> list_entry_id, value |-> IntValue(value),
                 created_at |-> Time(t), updated_at |-> NoTime])

\* the client method a call site uses
OpOf(at) ==
    CASE at \in {"get_organization_check", "get_organization_details"} -> "get_organization"
      [] at \in {"set_owner", "set_status"} -> "set_field_value"
      [] OTHER -> at

\* one CRM call as an invocation issued it: the call site, the method, its
\* argument and whether it returned (ok) or raised an HTTP error
Call(at, arg, ok) == [at |-> at, op |-> OpOf(at), arg |-> arg, ok |-> ok]

----------------------------------------------------------------------------
(* Organization resolution: process_company, "Find best match"             *)

NoOrg == [id |-> 0, name |-> <<>>, domain |-> <<>>, domains |-> {}]

\* `domain and org_domain and domain.lower() in org_domain.lower()`
DomainMatch(org, domain) ==
    Truthy(domain) /\ Truthy(org.domain)
        /\ Contains(Lower(org.domain), Lower(domain))

\* `search_term.lower() in org_name`, org_name being the lower-cased name
NameMatch(org, search_term) == Contains(Lower(org.name), Lower(search_term))

\* a match that takes an organization by its domain alone and has no fallback
\* to the first result
BestMatch_DomainOnly(found, search_term, domain) ==
    LET hits == {i \in 1..Len(found) : DomainMatch(found[i], domain)}
    IN  IF hits = {} THEN NoOrg
        ELSE found[CHOOSE i \in hits : \A j \in hits : i <= j]

\* the loop breaks at the first organization that matches either way; with no
\* such organization the first result is taken; no result gives None
BestMatch(found, search_term, domain) ==
    LET hits == {i \in 1..Len(found) :
                    DomainMatch(found[i], domain) \/ NameMatch(found[i], search_term)}
    IN  IF found = <<>> THEN NoOrg
        ELSE IF hits # {} THEN found[CHOOSE i \in hits : \A j \in hits : i <= j]
        ELSE found[1]

----------------------------------------------------------------------------
(* check_org_in_list                                                       *)

NoEntry == [id |-> 0, list_id |-> 0, entity_id |-> 0, created_at |-> NoTime]

\* the first list entry of the organization that is in the list, if any
EntryInList(es, organization_id, list_id) ==
    LET mine == SelectSeq(get_organization(es, organization_id),
                          LAMBDA e : e.list_id = list_id)
    IN  IF mine = <<>> THEN NoEntry ELSE mine[1]

\* check_org_in_list comparing the entry's integer list_id with the list id as
\* the string the environment gives, which are never equal
check_org_in_list_StringListId(es, organization_id, list_id, failed) ==
    [in_list |-> FALSE, entry |-> NoEntry]

\* (in_list, entry); a failed get_organization is caught and gives (False, None)
check_org_in_list(es, organization_id, list_id, failed) ==
    IF failed THEN [in_list |-> FALSE, entry |-> NoEntry]
    ELSE LET e == EntryInList(es, organization_id, list_id)
         IN  [in_list |-> e # NoEntry, entry |-> e]

----------------------------------------------------------------------------
(* get_stage_name                                                          *)

StageFieldNames == {nStage, nStatus, nDealStage}

NoField == [id |-> 0, name |-> <<>>, dropdown_options |-> <<>>]

\* StageField taking any field whose name contains a stage name
StageField_BySubstring(fields) ==
    LET hits == {i \in 1..Len(fields) :
                    \E n \in StageFieldNames : Contains(Lower(fields[i].name), n)}
    IN  IF hits = {} THEN NoField
        ELSE fields[CHOOSE i \in hits : \A j \in hits : i <= j]

\* the first field of the schema whose lower-cased name is a stage name
StageField(fields) ==
    LET hits == {i \in 1..Len(fields) : Lower(fields[i].name) \in StageFieldNames}
    IN  IF hits = {} THEN NoField
        ELSE fields[CHOOSE i \in hits : \A j \in hits : i <= j]

\* a dict built by `options[option["id"]] = option["text"]` over the options
\* in order: whether it has the key, and the text it holds for it
HasOption(options, code) == \E i \in 1..Len(options) : options[i].id = code

OptionText(options, code) ==
    LET hits == {i \in 1..Len(options) : options[i].id = code}
    IN  options[CHOOSE i \in hits : \A j \in hits : j <= i].text

\* DecodeStage without the str(value) of its last line: what is neither a
\* structured text nor a code of the dropdown is "Not set"
DecodeStage_NoFallback(value, options) ==
    IF value.kind = "text" THEN value.text
    ELSE IF value.kind = "int" /\ HasOption(options, value.num)
        THEN OptionText(options, value.num)
    ELSE "Not set"

\* the decode of get_stage_name for the value of the stage field
DecodeStage(value, options) ==
    IF value.kind = "text" THEN value.text
    ELSE IF value.kind = "int" /\ HasOption(options, value.num)
        THEN OptionText(options, value.num)
    ELSE IF ValueTruthy(value) THEN StrOf(value)
    ELSE "Not set"

\* [stage, calls]: any failed call is caught and gives "Unknown"
get_stage_name(fields, fvs, organization_id, fails) ==
    IF "get_list_fields" \in fails
    THEN [stage |-> "Unknown",
          calls |-> <<Call("get_list_fields", AFFINITY_LIST_ID, FALSE)>>]
    ELSE LET f == StageField(fields)
             c1 == <<Call("get_list_fields", AFFINITY_LIST_ID, TRUE)>>
         IN  IF f = NoField THEN [stage |-> "Unknown", calls |-> c1]
             ELSE IF "get_field_values" \in fails
             THEN [stage |-> "Unknown",
                   calls |-> Append(c1, Call("get_field_values", organization_id, FALSE))]
             ELSE LET mine == SelectSeq(get_field_values(fvs, organization_id),
                                        LAMBDA fv : fv.field_id = f.id)
                      c2 == Append(c1, Call("get_field_values", organization_id, TRUE))
                  IN  [stage |-> IF mine = <<>> THEN "Not set"
                                 ELSE DecodeStage(mine[1].value, f.dropdown_options),
                       calls |-> c2]

----------------------------------------------------------------------------
(* get_owner_name_from_id and get_list_entry_details                       *)

\* the display name, or None ("") when the lookup fails
get_owner_name_from_id(person_id, failed) ==
    IF failed \/ person_id \notin DOMAIN Persons THEN "" ELSE Persons[person_id]

\* the pass reason a field value contributes, "" for none
PassReasonOf(value) ==
    IF value.kind = "text" THEN value.text
    ELSE IF ValueTruthy(value) THEN StrOf(value)
    ELSE ""

\* [owners, pass_reasons, calls]; any failed call gives ([], [])
get_list_entry_details(es, fvs, org_id, fails) ==
    IF "get_organization_details" \in fails
    THEN [owners |-> <<>>, pass_reasons |-> <<>>,
          calls |-> <<Call("get_organization_details", org_id, FALSE)>>]
    ELSE LET e == EntryInList(es, org_id, AFFINITY_LIST_ID)
             c1 == <<Call("get_organization_details", org_id, TRUE)>>
         IN  IF e = NoEntry THEN [owners |-> <<>>, pass_reasons |-> <<>>, calls |-> c1]
             ELSE IF "get_list_entry_field_values" \in fails
             THEN [owners |-> <<>>, pass_reasons |-> <<>>,
                   calls |-> Append(c1, Call("get_list_entry_field_values", e.id, FALSE))]
             ELSE LET vals == get_list_entry_field_values(fvs, e.id)
                      own == SelectSeq(vals, LAMBDA fv :
                                fv.field_id = OWNERS_FIELD_ID /\ ValueTruthy(fv.value))
                      names == [i \in 1..Len(own) |->
                                get_owner_name_from_id(own[i].value.num, "persons" \in fails)]
                      pass == SelectSeq(vals, LAMBDA fv :
                                fv.field_id = PASS_REASON_FIELD_ID
                                    /\ PassReasonOf(fv.value) # "")
                  IN  [owners |-> SelectSeq(names, LAMBDA n : n # ""),
                       pass_reasons |-> [i \in 1..Len(pass) |-> PassReasonOf(pass[i].value)],
                       calls |-> Append(c1, Call("get_list_entry_field_values", e.id, TRUE))
                                   \o [i \in 1..Len(own) |->
                                        Call("persons", own[i].value.num,
                                             ~("persons" \in fails)
                                                /\ own[i].value.num \in DOMAIN Persons)]]

----------------------------------------------------------------------------
(* process_company                                                         *)

NoUser == "None"

\* the message of a result: which text it is and what it embeds
Msg(kind, company, stage, owners, pass_reasons) ==
    [kind |-> kind, company |-> company, stage |-> stage,
     owners |-> owners, pass_reasons |-> pass_reasons]

Result(status, company, stage, message) ==
    [status |-> status, company |-> company, stage |-> stage, message |-> message]

\* `except` clauses that log and raise again: the invocation is left by the
\* exception, with no status and no message
ErrorResult_Reraised(detail) ==
    Result("uncaught", <<>>, "", Msg("none", <<>>, detail, <<>>, <<>>))

\* the `except` clauses of process_company: the failed call's detail in the message
ErrorResult(detail) ==
    Result("error", <<>>, "", Msg("error", <<>>, detail, <<>>, <<>>))

\* what an invocation leaves: the CRM records, its result, the calls it issued
Outcome(os, es, fvs, result, calls) ==
    [orgs |-> os, entries |-> es, fieldValues |-> fvs, result |-> result,
     calls |-> calls]

\* `slack_user_id and slack_user_id in SLACK_TO_AFFINITY_PERSON`
OwnerMapped(slack_user_id) ==
    slack_user_id # NoUser /\ slack_user_id \in DOMAIN SLACK_TO_AFFINITY_PERSON

\* ExistsBranch with a get_stage_name that does not catch: a failed call of
\* the stage lookup reaches the `except` of process_company
ExistsBranch_StageRaises(c, org, calls, fails) ==
    LET st == get_stage_name(c.schema, c.fieldValues, org.id, fails)
        det == get_list_entry_details(c.entries, c.fieldValues, org.id, fails)
        shown == IF st.stage = "Passed" /\ det.pass_reasons # <<>>
                 THEN det.pass_reasons ELSE <<>>
    IN  IF \E i \in 1..Len(st.calls) : ~st.calls[i].ok
        THEN Outcome(c.orgs, c.entries, c.fieldValues, ErrorResult("get_stage_name"),
                     calls \o st.calls)
        ELSE Outcome(c.orgs, c.entries, c.fieldValues,
                     Result("exists", org.name, st.stage,
                            Msg("already_in_pipeline", org.name, st.stage, det.owners, shown)),
                     calls \o st.calls \o det.calls)

\* the branch taken when the organization is already in the pipeline
ExistsBranch(c, org, calls, fails) ==
    LET st == get_stage_name(c.schema, c.fieldValues, org.id, fails)
        det == get_list_entry_details(c.entries, c.fieldValues, org.id, fails)
        shown == IF st.stage = "Passed" /\ det.pass_reasons # <<>>
                 THEN det.pass_reasons ELSE <<>>
    IN  Outcome(c.orgs, c.entries, c.fieldValues,
                Result("exists", org.name, st.stage,
                       Msg("already_in_pipeline", org.name, st.stage, det.owners, shown)),
                calls \o st.calls \o det.calls)

\* SetOwner looking the person up with .get() for any sender that is present,
\* mapped or not (an unmapped sender gives the value None, written 0)
SetOwner_NoMapCheck(fvs, calls, org_id, entry_id, slack_user_id, t, fails) ==
    IF slack_user_id = NoUser THEN [fieldValues |-> fvs, calls |-> calls]
    ELSE IF "set_owner" \in fails
    THEN [fieldValues |-> fvs,
          calls |-> Append(calls, Call("set_owner", OWNERS_FIELD_ID, FALSE))]
    ELSE [fieldValues |-> set_field_value(fvs, OWNERS_FIELD_ID, org_id, entry_id,
                            IF slack_user_id \in DOMAIN SLACK_TO_AFFINITY_PERSON
                            THEN SLACK_TO_AFFINITY_PERSON[slack_user_id] ELSE 0, t),
          calls |-> Append(calls, Call("set_owner", OWNERS_FIELD_ID, TRUE))]

\* "Set owner if we have a slack user mapping": [fieldValues, calls]; a failed
\* set is caught and logged
SetOwner(fvs, calls, org_id, entry_id, slack_user_id, t, fails) ==
    IF ~OwnerMapped(slack_user_id) THEN [fieldValues |-> fvs, calls |-> calls]
    ELSE IF "set_owner" \in fails
    THEN [fieldValues |-> fvs,
          calls |-> Append(calls, Call("set_owner", OWNERS_FIELD_ID, FALSE))]
    ELSE [fieldValues |-> set_field_value(fvs, OWNERS_FIELD_ID, org_id, entry_id,
                                          SLACK_TO_AFFINITY_PERSON[slack_user_id], t),
          calls |-> Append(calls, Call("set_owner", OWNERS_FIELD_ID, TRUE))]

\* SetMissed that builds its "as Missed" reply before the call and returns it
\* whether or not the call went through
SetMissed_ClaimsMissed(fvs, calls, org_id, entry_id, is_missed, t, fails) ==
    IF ~is_missed THEN [fieldValues |-> fvs, calls |-> calls, done |-> FALSE]
    ELSE IF "set_status" \in fails
    THEN [fieldValues |-> fvs,
          calls |-> Append(calls, Call("set_status", STATUS_FIELD_ID, FALSE)),
          done |-> TRUE]
    ELSE [fieldValues |-> set_field_value(fvs, STATUS_FIELD_ID, org_id, entry_id,
                                          MISSED_STATUS_VALUE_ID, t),
          calls |-> Append(calls, Call("set_status", STATUS_FIELD_ID, TRUE)),
          done |-> TRUE]

\* "If marked as missed, set the status": [fieldValues, calls, done]; a failed
\* set is caught and logged, and the invocation falls through to the plain return
SetMissed(fvs, calls, org_id, entry_id, is_missed, t, fails) ==
    IF ~is_missed THEN [fieldValues |-> fvs, calls |-> calls, done |-> FALSE]
    ELSE IF "set_status" \in fails
    THEN [fieldValues |-> fvs,
          calls |-> Append(calls, Call("set_status", STATUS_FIELD_ID, FALSE)),
          done |-> FALSE]
    ELSE [fieldValues |-> set_field_value(fvs, STATUS_FIELD_ID, org_id, entry_id,
                                          MISSED_STATUS_VALUE_ID, t),
          calls |-> Append(calls, Call("set_status", STATUS_FIELD_ID, TRUE)),
          done |-> TRUE]

\* the message of an added or created result
AddedMsg(status, org_name, missed) ==
    Msg(IF status = "added"
        THEN (IF missed THEN "added_as_missed" ELSE "added_as_new_lead")
        ELSE (IF missed THEN "created_as_missed" ELSE "created_as_new_lead"),
        org_name, "", <<>>, <<>>)

\* AddToPipeline with add_to_list in a try of its own, like the field sets: a
\* failed add is logged and the invocation returns its status all the same
AddToPipeline_AddCaught(c, os, org_id, org_name, status, calls, is_missed, slack_user_id, fails) ==
    IF "add_to_list" \in fails
    THEN Outcome(os, c.entries, c.fieldValues,
                 Result(status, org_name, "", AddedMsg(status, org_name, FALSE)),
                 Append(calls, Call("add_to_list", org_id, FALSE)))
    ELSE LET es == add_to_list(c.entries, AFFINITY_LIST_ID, org_id, c.now)
             entry_id == es[Len(es)].id
             c1 == Append(calls, Call("add_to_list", org_id, TRUE))
             own == SetOwner(c.fieldValues, c1, org_id, entry_id, slack_user_id,
                             c.now, fails)
             mis == SetMissed(own.fieldValues, own.calls, org_id, entry_id, is_missed,
                              c.now, fails)
         IN  Outcome(os, es, mis.fieldValues,
                     Result(status, org_name, "", AddedMsg(status, org_name, mis.done)),
                     mis.calls)

\* add_to_list, then the owner and the Missed status; `status` is "added" or
\* "created"; a failed add_to_list reaches the `except` of process_company
AddToPipeline(c, os, org_id, org_name, status, calls, is_missed, slack_user_id, fails) ==
    IF "add_to_list" \in fails
    THEN Outcome(os, c.entries, c.fieldValues, ErrorResult("add_to_list"),
                 Append(calls, Call("add_to_list", org_id, FALSE)))
    ELSE LET es == add_to_list(c.entries, AFFINITY_LIST_ID, org_id, c.now)
             entry_id == es[Len(es)].id
             c1 == Append(calls, Call("add_to_list", org_id, TRUE))
             own == SetOwner(c.fieldValues, c1, org_id, entry_id, slack_user_id,
                             c.now, fails)
             mis == SetMissed(own.fieldValues, own.calls, org_id, entry_id, is_missed,
                              c.now, fails)
         IN  Outcome(os, es, mis.fieldValues,
                     Result(status, org_name, "", AddedMsg(status, org_name, mis.done)),
                     mis.calls)

\* FoundBranch that also records a missed deal on an entry that exists: it
\* sets the entry's status to Missed before reporting
FoundBranch_MissedUpdates(c, org, calls, is_missed, slack_user_id, fails) ==
    LET failed == "get_organization_check" \in fails
        chk == check_org_in_list(c.entries, org.id, AFFINITY_LIST_ID, failed)
        c1 == Append(calls, Call("get_organization_check", org.id, ~failed))
        marked == [c EXCEPT !.fieldValues =
                     set_field_value(c.fieldValues, STATUS_FIELD_ID, org.id, chk.entry.id,
                                     MISSED_STATUS_VALUE_ID, c.now)]
    IN  IF chk.in_list
        THEN ExistsBranch(IF is_missed THEN marked ELSE c, org,
                          IF is_missed
                          THEN Append(c1, Call("set_status", STATUS_FIELD_ID, TRUE))
                          ELSE c1, fails)
        ELSE AddToPipeline(c, c.orgs, org.id, org.name, "added", c1,
                           is_missed, slack_user_id, fails)

\* the branch taken when an organization was resolved
FoundBranch(c, org, calls, is_missed, slack_user_id, fails) ==
    LET failed == "get_organization_check" \in fails
        chk == check_org_in_list(c.entries, org.id, AFFINITY_LIST_ID, failed)
        c1 == Append(calls, Call("get_organization_check", org.id, ~failed))
    IN  IF chk.in_list
        THEN ExistsBranch(c, org, c1, fails)
        ELSE AddToPipeline(c, c.orgs, org.id, org.name, "added", c1,
                           is_missed, slack_user_id, fails)

\* CreateBranch naming the new organization after the term it searched for
\* (the domain when there is one) instead of the company name
CreateBranch_NamedAfterTerm(c, search_term, domain, calls, is_missed, slack_user_id, fails) ==
    IF "create_organization" \in fails
    THEN Outcome(c.orgs, c.entries, c.fieldValues, ErrorResult("create_organization"),
                 Append(calls, Call("create_organization", search_term, FALSE)))
    ELSE LET os == create_organization(c.orgs,
                       IF Truthy(domain) THEN domain ELSE search_term, domain)
             new_org == os[Len(os)]
         IN  AddToPipeline(c, os, new_org.id, new_org.name, "created",
                           Append(calls, Call("create_organization", search_term, TRUE)),
                           is_missed, slack_user_id, fails)

\* the branch taken when the search resolved no organization
CreateBranch(c, search_term, domain, calls, is_missed, slack_user_id, fails) ==
    IF "create_organization" \in fails
    THEN Outcome(c.orgs, c.entries, c.fieldValues, ErrorResult("create_organization"),
                 Append(calls, Call("create_organization", search_term, FALSE)))
    ELSE LET os == create_organization(c.orgs, search_term, domain)
             new_org == os[Len(os)]
         IN  AddToPipeline(c, os, new_org.id, new_org.name, "created",
                           Append(calls, Call("create_organization", search_term, TRUE)),
                           is_missed, slack_user_id, fails)

\* process_company against the CRM state c, the calls named in `fails` raising
\* an HTTP error when issued
process_company(c, search_term, domain, is_missed, slack_user_id, fails) ==
    LET term == IF Truthy(domain) THEN domain ELSE search_term
    IN  IF "search_organization" \in fails
        THEN Outcome(c.orgs, c.entries, c.fieldValues, ErrorResult("search_organization"),
                     <<Call("search_organization", term, FALSE)>>)
        ELSE LET found == search_organization(c.orgs, term)
                 organization == BestMatch(found, search_term, domain)
                 calls == <<Call("search_organization", term, TRUE)>>
             IN  IF organization # NoOrg
                 THEN FoundBranch(c, organization, calls, is_missed, slack_user_id, fails)
                 ELSE CreateBranch(c, search_term, domain, calls,
                                   is_missed, slack_user_id, fails)

----------------------------------------------------------------------------
(* get_deals_needing_nudge                                                 *)

\* the clock counts half days
UnitsPerDay == 2

\* a call site of the scan: the method and the record it is issued for
Site(op, id) == <<op, id>>

\* the loop over the fields has no break: the last field named status or
\* stage gives status_field_id, and the options of all of them are merged
ScanStatusField(fields) ==
    LET hits == {i \in 1..Len(fields) : Lower(fields[i].name) \in {nStatus, nStage}}
    IN  IF hits = {} THEN NoField
        ELSE fields[CHOOSE i \in hits : \A j \in hits : j <= i]

RECURSIVE ScanStatusOptions(_)
ScanStatusOptions(fields) ==
    IF fields = <<>> THEN <<>>
    ELSE LET f == fields[Len(fields)]
             rest == ScanStatusOptions(SubSeq(fields, 1, Len(fields) - 1))
         IN  IF Lower(f.name) \in {nStatus, nStage} THEN rest \o f.dropdown_options
             ELSE rest

\* the last field named owners (that is not a status field), 0 for none
ScanOwnersFieldId(fields) ==
    LET hits == {i \in 1..Len(fields) : Lower(fields[i].name) = nOwners}
    IN  IF hits = {} THEN 0
        ELSE fields[CHOOSE i \in hits : \A j \in hits : j <= i].id

\* `a or b` on two timestamps: None is falsy, any string is truthy
OrTime(a, b) == IF a.k = "none" THEN b ELSE a

\* the loop over the field values of one entry, from the state `acc` =
\* [current_status, status_updated_at, owners]
RECURSIVE ScanFieldValues(_, _, _, _, _)
ScanFieldValues(vals, status_field_id, owners_field_id, options, acc) ==
    IF vals = <<>> THEN acc
    ELSE LET fv == Head(vals)
             next ==
                IF fv.field_id = status_field_id
                THEN [acc EXCEPT
                        !.current_status =
                            IF fv.value.kind = "text" THEN fv.value.text
                            ELSE IF fv.value.kind = "int" /\ HasOption(options, fv.value.num)
                                THEN OptionText(options, fv.value.num)
                            ELSE acc.current_status,
                        !.status_updated_at = OrTime(fv.updated_at, fv.created_at)]
                ELSE IF fv.field_id = owners_field_id /\ ValueTruthy(fv.value)
                THEN [acc EXCEPT !.owners = Append(acc.owners, fv.value.num)]
                ELSE acc
         IN  ScanFieldValues(Tail(vals), status_field_id, owners_field_id, options, next)

\* the date the status was set: [ok, t]; ok is FALSE when the parse that is
\* not inside a try raises
StatusDate(status_updated_at, created_at) ==
    IF status_updated_at.k = "ts" THEN [ok |-> TRUE, t |-> status_updated_at.t]
    ELSE IF created_at.k = "ts" THEN [ok |-> TRUE, t |-> created_at.t]
    ELSE [ok |-> FALSE, t |-> 0]

\* timedelta.days of (now - status_date)
DaysInStage(t_now, t) == (t_now - t) \div UnitsPerDay

\* `current_status and current_status in STAGE_THRESHOLDS`
NeedsThreshold(current_status) ==
    current_status # "" /\ current_status \in DOMAIN STAGE_THRESHOLDS

\* the comparison with the threshold read as a number of weeks
PastThreshold_InWeeks(current_status, days_in_stage) ==
    days_in_stage >= STAGE_THRESHOLDS[current_status] \div 7

\* the comparison with the threshold made strict
PastThreshold_Strict(current_status, days_in_stage) ==
    days_in_stage > STAGE_THRESHOLDS[current_status]

\* `days_in_stage >= threshold_days`
PastThreshold(current_status, days_in_stage) ==
    days_in_stage >= STAGE_THRESHOLDS[current_status]

Candidate(os, entity_id, current_status, days_in_stage, owners) ==
    [org_id |-> entity_id, org_name |-> os[entity_id].name, status |-> current_status,
     days_in_stage |-> days_in_stage, weeks_in_stage |-> days_in_stage \div 7,
     owners |-> owners, link |-> entity_id]

\* the body of the loop for one entry: [kind, deal, calls], the kind being
\* "emit", "skip", or "raise" when an exception leaves the loop
ScanEntry(c, entry, status_field_id, owners_field_id, options, fails) ==
    IF Site("get_list_entry_field_values", entry.id) \in fails
    THEN [kind |-> "raise", deal |-> <<>>,
          calls |-> <<Call("get_list_entry_field_values", entry.id, FALSE)>>]
    ELSE LET acc == ScanFieldValues(get_list_entry_field_values(c.fieldValues, entry.id),
                                    status_field_id, owners_field_id, options,
                                    [current_status |-> "", status_updated_at |-> NoTime,
                                     owners |-> <<>>])
             c1 == <<Call("get_list_entry_field_values", entry.id, TRUE)>>
             date == StatusDate(acc.status_updated_at, entry.created_at)
             days == DaysInStage(c.now, date.t)
         IN  IF ~NeedsThreshold(acc.current_status)
             THEN [kind |-> "skip", deal |-> <<>>, calls |-> c1]
             ELSE IF ~date.ok THEN [kind |-> "raise", deal |-> <<>>, calls |-> c1]
             ELSE IF ~PastThreshold(acc.current_status, days)
             THEN [kind |-> "skip", deal |-> <<>>, calls |-> c1]
             ELSE IF Site("get_organization", entry.entity_id) \in fails
             THEN [kind |-> "skip", deal |-> <<>>,
                   calls |-> Append(c1, Call("get_organization", entry.entity_id, FALSE))]
             ELSE [kind |-> "emit",
                   deal |-> <<Candidate(c.orgs, entry.entity_id, acc.current_status,
                                        days, acc.owners)>>,
                   calls |-> Append(c1, Call("get_organization", entry.entity_id, TRUE))]

\* the loop over the list entries: [raised, deals, calls]
RECURSIVE ScanEntries(_, _, _, _, _, _)
ScanEntries(c, es, status_field_id, owners_field_id, options, fails) ==
    IF es = <<>> THEN [raised |-> FALSE, deals |-> <<>>, calls |-> <<>>]
    ELSE LET before == ScanEntries(c, SubSeq(es, 1, Len(es) - 1), status_field_id,
                                   owners_field_id, options, fails)
             this == ScanEntry(c, es[Len(es)], status_field_id, owners_field_id,
                               options, fails)
         IN  IF before.raised THEN before
             ELSE [raised |-> this.kind = "raise",
                   deals |-> before.deals \o this.deal,
                   calls |-> before.calls \o this.calls]

\* GET /lists/{list_id}/list-entries
get_list_entries(es, list_id) == SelectSeq(es, LAMBDA e : e.list_id = list_id)

\* get_deals_needing_nudge: [deals, calls, raised]; the outer `except` logs
\* the exception (raised) and returns []
get_deals_needing_nudge(c, fails) ==
    IF Site("get_list_fields", AFFINITY_LIST_ID) \in fails
    THEN [deals |-> <<>>, raised |-> TRUE,
          calls |-> <<Call("get_list_fields", AFFINITY_LIST_ID, FALSE)>>]
    ELSE LET f == ScanStatusField(c.schema)
             c1 == <<Call("get_list_fields", AFFINITY_LIST_ID, TRUE)>>
         IN  IF f = NoField THEN [deals |-> <<>>, raised |-> FALSE, calls |-> c1]
             ELSE IF Site("get_list_entries", AFFINITY_LIST_ID) \in fails
             THEN [deals |-> <<>>, raised |-> TRUE,
                   calls |-> Append(c1, Call("get_list_entries", AFFINITY_LIST_ID, FALSE))]
             ELSE LET r == ScanEntries(c, get_list_entries(c.entries, AFFINITY_LIST_ID),
                                       f.id, ScanOwnersFieldId(c.schema),
                                       ScanStatusOptions(c.schema), fails)
                  IN  [deals |-> IF r.raised THEN <<>> ELSE r.deals,
                       raised |-> r.raised,
                       calls |-> Append(c1, Call("get_list_entries", AFFINITY_LIST_ID, TRUE))
                                    \o r.calls]

----------------------------------------------------------------------------
(* The messages the reconciliation is driven with, and the CRM it starts on *)

MaxInitOrgs == 2
MaxFresh == 1
MaxCalls == 2
MaxFails == 2

sAcme == <<"A", "c", "m", "e">>
dAcme == <<"a", "c", "m", "e", ".", "c", "o", "m">>

\* (search_term, domain) as handle_message extracts them
ArgPairs == {<<sAcme, dAcme>>, <<sAcme, None>>}

\* the sender: absent, a mapped Slack ID, an unmapped Slack ID
Users == {NoUser, "U02SC43GEH4", "U0GUEST"}

\* organizations the CRM may already hold: one found for "acme.com" by its
\* name only, one by its primary domain only, and one by another of its
\* domains only, which is also tracked in another list
OrgPool ==
    { [name |-> <<"A", "c", "m", "e", ".", "c", "o", "m">>, domain |-> <<>>,
       domains |-> {}, elsewhere |-> FALSE],
      [name |-> <<"A", "p", "e", "x">>,
       domain |-> <<"A", "c", "m", "e", ".", "c", "o", "m">>, domains |-> {},
       elsewhere |-> FALSE],
      [name |-> <<"B", "a", "r">>, domain |-> <<"b", "a", "r", ".", "i", "o">>,
       domains |-> {dAcme}, elsewhere |-> TRUE] }

\* the calls of process_company that can fail, by the place that issues them
FailPoints ==
    {"search_organization", "get_organization_check", "get_list_fields",
     "get_field_values", "get_organization_details", "get_list_entry_field_values",
     "persons", "create_organization", "add_to_list", "set_owner", "set_status"}

FailSets == {f \in SUBSET FailPoints : Cardinality(f) <= MaxFails}

\* the list schema of the deal pipeline
DefaultSchema ==
    << [id |-> STATUS_FIELD_ID, name |-> <<"S", "t", "a", "t", "u", "s">>,
        dropdown_options |-> << [id |-> MISSED_STATUS_VALUE_ID, text |-> "Missed"],
                                [id |-> MISSED_STATUS_VALUE_ID + 1, text |-> "Passed"] >>],
       [id |-> OWNERS_FIELD_ID, name |-> <<"O", "w", "n", "e", "r", "s">>,
        dropdown_options |-> <<>>],
       [id |-> PASS_REASON_FIELD_ID,
        name |-> <<"P", "a", "s", "s", " ", "R", "e", "a", "s", "o", "n">>,
        dropdown_options |-> <<>>] >>

\* the sequences of distinct members of S of length n
RECURSIVE Arrangements(_, _)
Arrangements(S, n) ==
    IF n = 0 THEN {<<>>}
    ELSE UNION {{Append(a, x) : x \in S \ {a[i] : i \in 1..Len(a)}} :
                    a \in Arrangements(S, n - 1)}

WithIds(pool) == [i \in 1..Len(pool) |->
    [id |-> i, name |-> pool[i].name, domain |-> pool[i].domain,
     domains |-> pool[i].domains]]

\* the list entries the CRM starts with: the organizations tracked in another
\* list have an entry there, those of `member` have one in the deal pipeline
RECURSIVE InitEntries(_, _, _)
InitEntries(pool, member, n) ==
    IF n = 0 THEN <<>>
    ELSE LET es == InitEntries(pool, member, n - 1)
             es1 == IF pool[n].elsewhere THEN add_to_list(es, OtherListId, n, 0) ELSE es
         IN  IF n \in member THEN add_to_list(es1, AFFINITY_LIST_ID, n, 0) ELSE es1

\* the field values of a pre-existing pipeline entry: passed on, with its
\* owner and the reason
InitialValues(e) ==
    << [field_id |-> STATUS_FIELD_ID, entity_id |-> e.entity_id,
             list_entry_id |-> e.id, value |-> IntValue(MISSED_STATUS_VALUE_ID + 1),
             created_at |-> Time(0), updated_at |-> NoTime],
            [field_id |-> OWNERS_FIELD_ID, entity_id |-> e.entity_id,
             list_entry_id |-> e.id, value |-> IntValue(217635093),
             created_at |-> Time(0), updated_at |-> NoTime],
            [field_id |-> PASS_REASON_FIELD_ID, entity_id |-> e.entity_id,
             list_entry_id |-> e.id, value |-> TextValue("Too early"),
             created_at |-> Time(0), updated_at |-> NoTime] >>

RECURSIVE InitValues(_, _)
InitValues(es, n) ==
    IF n = 0 THEN <<>>
    ELSE InitValues(es, n - 1)
            \o (IF es[n].list_id = AFFINITY_LIST_ID THEN InitialValues(es[n]) ELSE <<>>)

\* the record of the latest Slack event handled: how many were handled, the
\* event, what the handler went on to do ("none", "scan", "reconcile", or
\* "extract" for extract_company_info on its own), what extract_company_info
\* returned, the CRM calls issued and the messages posted
NoEvent == [type |-> "none", subtype |-> "", channel_name |-> "", text |-> <<>>,
            user |-> NoUser]

NoExtract == [company_name |-> <<>>, domain |-> <<>>]

NoMsg == [n |-> 0, event |-> NoEvent, acted |-> "none", extracted |-> NoExtract,
          calls |-> <<>>, said |-> <<>>]

\* the record of the latest run of get_stage_name on its own: whether one
\* ran, the organization it ran for, the label it returned and the calls it
\* issued
NoStage == [ran |-> FALSE, org_id |-> 0, stage |-> "", calls |-> <<>>]

\* an invocation of process_company and a scan in progress, each between two
\* of its CRM calls: where the invocation is (pc), the calls it is to find
\* failing, and the organization and the entry it works on; where the scan
\* is, the entries it fetched, the position of the next one, the deals and
\* calls so far, and of each entry passed whether it had a status value
\* when the scan read its values and whether a deal was emitted for it
IdleRec == [pc |-> "idle", fails |-> {}, org_id |-> 0, org_name |-> <<>>, status |-> "",
            entry_id |-> 0]

IdleScn == [pc |-> "idle", fails |-> {}, snapshot |-> <<>>, k |-> 0, deals |-> <<>>,
            calls |-> <<>>, seen |-> <<>>]

NoRace == [rec |-> IdleRec, scn |-> IdleScn]

\* the record of the latest scan: whether one ran, the time it ran at, the
\* deals it returned, whether it was left by the outer `except`, and the calls
\* it issued
NoScan == [ran |-> FALSE, at |-> 0, deals |-> <<>>, raised |-> FALSE, calls |-> <<>>]

NoArgs == [search_term |-> <<>>, domain |-> <<>>, is_missed |-> FALSE,
           slack_user_id |-> NoUser]

\* the record of the latest invocation: its arguments, its result, the calls
\* it issued, the CRM records it started from, and the status of the
\* invocation before it when that one had the same arguments
NoLast(os, es, fvs) ==
    [args |-> NoArgs, result |-> Result("none", <<>>, "", Msg("none", <<>>, "", <<>>, <<>>)),
     calls |-> <<>>, pre |-> [orgs |-> os, entries |-> es, fieldValues |-> fvs],
     repeat |-> "none"]

Init ==
    \E n \in 0..MaxInitOrgs :
      \E pool \in Arrangements(OrgPool, n) :
        \E member \in SUBSET (1..n) :
            LET es == InitEntries(pool, member, n)
                fvs == InitValues(es, Len(es))
            IN  /\ orgs = WithIds(pool)
                /\ entries = es
                /\ fieldValues = fvs
                /\ schema = DefaultSchema
                /\ now = 0
                /\ last = NoLast(WithIds(pool), es, fvs)
                /\ nudges = NoScan
                /\ ncalls = 0
                /\ nscans = 0
                /\ resolved = NoStage
                /\ msg = NoMsg
                /\ race = NoRace

\* process_company runs to its return on the message `args`
Handle(args, fails) ==
    LET c == [orgs |-> orgs, entries |-> entries, fieldValues |-> fieldValues,
              schema |-> schema, now |-> now]
    IN  \E out \in {process_company(c, args.search_term, args.domain, args.is_missed,
                                    args.slack_user_id, fails)} :
          /\ ncalls' = ncalls + 1
          /\ orgs' = out.orgs
          /\ entries' = out.entries
          /\ fieldValues' = out.fieldValues
          /\ last' = [args |-> args, result |-> out.result, calls |-> out.calls,
                      pre |-> [orgs |-> orgs, entries |-> entries,
                               fieldValues |-> fieldValues],
                      repeat |-> IF last.args = args THEN last.result.status
                                 ELSE "none"]
          /\ UNCHANGED <<race, schema, now, nudges, nscans, resolved, msg>>

\* a message is posted to the channel and handled
Reconcile ==
    /\ ncalls < MaxFresh
    /\ \E pair \in ArgPairs, is_missed \in BOOLEAN, slack_user_id \in Users,
          fails \in FailSets :
            Handle([search_term |-> pair[1], domain |-> pair[2],
                    is_missed |-> is_missed, slack_user_id |-> slack_user_id], fails)

\* the latest message is posted again by the same sender and handled
Repeat ==
    /\ MaxFresh <= ncalls
    /\ ncalls < MaxCalls
    /\ \E fails \in FailSets : Handle(last.args, fails)

Next == Reconcile \/ Repeat

Spec == Init /\ [][Next]_vars

----------------------------------------------------------------------------
(* The pipelines the staleness scan is driven with                         *)

MaxScanEntries == 2
MaxScans == 1
MaxTicks == 1

\* dropdown codes of the status field
FirstMeetingCode == MISSED_STATUS_VALUE_ID + 2
PassedCode == MISSED_STATUS_VALUE_ID + 1
StaleCode == MISSED_STATUS_VALUE_ID + 3

StatusField ==
    [id |-> STATUS_FIELD_ID, name |-> <<"S", "t", "a", "t", "u", "s">>,
     dropdown_options |-> << [id |-> MISSED_STATUS_VALUE_ID, text |-> "Missed"],
                             [id |-> PassedCode, text |-> "Passed"],
                             [id |-> FirstMeetingCode, text |-> "First Meeting"] >>]

OwnersField ==
    [id |-> OWNERS_FIELD_ID, name |-> <<"O", "w", "n", "e", "r", "s">>,
     dropdown_options |-> <<>>]

\* the schemas a list may have: the status field alone, a field named Stage
\* before it, and a stage field named "Deal Stage" only
ScanSchemas ==
    { <<StatusField, OwnersField>>,
      << [id |-> STATUS_FIELD_ID + 1, name |-> <<"S", "t", "a", "g", "e">>,
          dropdown_options |-> <<>>], StatusField, OwnersField >>,
      << [id |-> STATUS_FIELD_ID,
          name |-> <<"D", "e", "a", "l", " ", "S", "t", "a", "g", "e">>,
          dropdown_options |-> StatusField.dropdown_options], OwnersField >> }

\* the values the status field of an entry may hold: a text, a code of the
\* dropdown, a code the dropdown no longer has
StatusValues ==
    {TextValue("Engaged"), IntValue(FirstMeetingCode), TextValue("Passed"),
     IntValue(StaleCode)}

\* ages in clock units: half a day short of the 14-day threshold, and far
\* beyond every threshold
NearAge == 14 * UnitsPerDay - 1
OldAge == 200 * UnitsPerDay

\* the timestamps of an entry and of its status value: the status set long
\* ago or lately, recorded as the update stamp; set lately and recorded as
\* the creation stamp of the value, or on the entry alone, or with an update
\* stamp that does not parse; and no stamp that parses
Stamps ==
    { [updated_at |-> Time(0 - OldAge), value_created_at |-> NoTime,
       entry_created_at |-> Time(0 - OldAge)],
      [updated_at |-> Time(0 - NearAge), value_created_at |-> NoTime,
       entry_created_at |-> Time(0 - OldAge)],
      [updated_at |-> NoTime, value_created_at |-> Time(0 - NearAge),
       entry_created_at |-> Time(0 - OldAge)],
      [updated_at |-> NoTime, value_created_at |-> NoTime,
       entry_created_at |-> Time(0 - NearAge)],
      [updated_at |-> BadTime, value_created_at |-> NoTime,
       entry_created_at |-> Time(0 - NearAge)],
      [updated_at |-> BadTime, value_created_at |-> NoTime,
       entry_created_at |-> BadTime] }

\* a pipeline entry as the scan input describes it: no status value, or a
\* status value and its timestamps
EntryShapes ==
    {[has |-> FALSE, value |-> NoValue, stamps |-> s] :
        s \in {[updated_at |-> NoTime, value_created_at |-> NoTime,
                entry_created_at |-> Time(0 - OldAge)]}}
      \cup {[has |-> TRUE, value |-> v, stamps |-> s] : v \in StatusValues, s \in Stamps}

ScanOrgs ==
    << [id |-> 1, name |-> sAcme, domain |-> dAcme, domains |-> {}],
       [id |-> 2, name |-> <<"B", "a", "r">>, domain |-> <<"b", "a", "r", ".", "i", "o">>,
        domains |-> {}],
       [id |-> 3, name |-> <<"A", "p", "e", "x">>, domain |-> <<>>, domains |-> {}] >>

\* entry i belongs to organization i
ScanEntriesOf(shapes) ==
    [i \in 1..Len(shapes) |->
        [id |-> i, list_id |-> AFFINITY_LIST_ID, entity_id |-> i,
         created_at |-> shapes[i].stamps.entry_created_at]]

RECURSIVE ScanValuesOf(_, _)
ScanValuesOf(shapes, n) ==
    IF n = 0 THEN <<>>
    ELSE ScanValuesOf(shapes, n - 1)
           \o << [field_id |-> OWNERS_FIELD_ID, entity_id |-> n, list_entry_id |-> n,
                  value |-> IntValue(217635093), created_at |-> NoTime,
                  updated_at |-> NoTime] >>
           \o (IF shapes[n].has
               THEN << [field_id |-> STATUS_FIELD_ID, entity_id |-> n, list_entry_id |-> n,
                        value |-> shapes[n].value,
                        created_at |-> shapes[n].stamps.value_created_at,
                        updated_at |-> shapes[n].stamps.updated_at] >>
               ELSE <<>>)

InitScan ==
    \E n \in 1..MaxScanEntries :
      \E shapes \in [1..n -> EntryShapes], sch \in ScanSchemas :
        /\ orgs = SubSeq(ScanOrgs, 1, n)
        /\ entries = ScanEntriesOf(shapes)
        /\ fieldValues = ScanValuesOf(shapes, n)
        /\ schema = sch
        /\ now = 0
        /\ last = NoLast(SubSeq(ScanOrgs, 1, n), ScanEntriesOf(shapes),
                         ScanValuesOf(shapes, n))
        /\ nudges = NoScan
        /\ ncalls = 0
        /\ nscans = 0
        /\ resolved = NoStage
        /\ msg = NoMsg
        /\ race = NoRace

\* the call sites of a scan that can fail
ScanSites ==
    {Site("get_list_fields", AFFINITY_LIST_ID), Site("get_list_entries", AFFINITY_LIST_ID)}
        \cup {Site("get_list_entry_field_values", entries[i].id) : i \in 1..Len(entries)}
        \cup {Site("get_organization", entries[i].entity_id) : i \in 1..Len(entries)}

\* the weekly trigger or the manual command: get_deals_needing_nudge runs to
\* its return
Scan ==
    /\ nscans < MaxScans
    /\ \E fails \in {f \in SUBSET ScanSites : Cardinality(f) <= MaxFails} :
          LET c == [orgs |-> orgs, entries |-> entries, fieldValues |-> fieldValues,
                    schema |-> schema, now |-> now]
          IN  \E out \in {get_deals_needing_nudge(c, fails)} :
                /\ nudges' = [ran |-> TRUE, at |-> now, deals |-> out.deals,
                              raised |-> out.raised, calls |-> out.calls]
                /\ nscans' = nscans + 1
                /\ UNCHANGED <<race, orgs, entries, fieldValues, schema, now, last, ncalls,
                               resolved, msg>>

\* half a day passes
Tick ==
    /\ now < MaxTicks
    /\ now' = now + 1
    /\ UNCHANGED <<race, orgs, entries, fieldValues, schema, last, nudges, ncalls, nscans,
                   resolved, msg>>

NextScan == Scan \/ Tick

SpecScan == InitScan /\ [][NextScan]_vars

----------------------------------------------------------------------------
(* The stage of an entry, as get_stage_name and as the scan read it, over   *)
(* the schemas and the values a list may have                               *)

MaxStageEntries == 2

StageFieldId == STATUS_FIELD_ID + 1

\* a second stage-like field, with a dropdown of its own
StageFieldOf(name) ==
    [id |-> StageFieldId, name |-> name,
     dropdown_options |-> << [id |-> FirstMeetingCode, text |-> "Engaged"] >>]

\* the schemas: the status field alone; a field named Stage before it; the
\* stage field named "Deal Stage"; and no field with a stage name, the field
\* that holds the stage being named "Pipeline Stage"
StageSchemas ==
    { <<StatusField, OwnersField>>,
      <<StageFieldOf(<<"S", "t", "a", "g", "e">>), StatusField, OwnersField>>,
      << [StatusField EXCEPT !.name = <<"D", "e", "a", "l", " ", "S", "t", "a", "g", "e">>],
         OwnersField >>,
      << [StatusField EXCEPT !.name = <<"P", "i", "p", "e", "l", "i", "n", "e", " ",
                                        "S", "t", "a", "g", "e">>],
         OwnersField >> }

\* what an entry holds for the status field: a structured text, a code of the
\* dropdown, a code the dropdown does not have, a plain string, the falsy
\* scalars 0 and "", a value of None, or no value at all (written has = FALSE)
StageValues ==
    {TextValue("First Meeting"), IntValue(FirstMeetingCode), IntValue(StaleCode),
     StrValue("Engaged"), IntValue(0), StrValue(""), NoValue}

\* an entry: its value for the status field, and whether it has one for the
\* second stage-like field
StageShapes ==
    {[has |-> h, value |-> v, second |-> b] :
        h \in {TRUE}, v \in StageValues, b \in BOOLEAN}
      \cup {[has |-> FALSE, value |-> NoValue, second |-> b] : b \in BOOLEAN}

StageEntriesOf(shapes) ==
    [i \in 1..Len(shapes) |->
        [id |-> i, list_id |-> AFFINITY_LIST_ID, entity_id |-> i,
         created_at |-> Time(0 - OldAge)]]

RECURSIVE StageValuesOf(_, _)
StageValuesOf(shapes, n) ==
    IF n = 0 THEN <<>>
    ELSE StageValuesOf(shapes, n - 1)
           \o (IF shapes[n].second
               THEN << [field_id |-> StageFieldId, entity_id |-> n, list_entry_id |-> n,
                        value |-> IntValue(FirstMeetingCode), created_at |-> Time(0 - OldAge),
                        updated_at |-> Time(0 - OldAge)] >>
               ELSE <<>>)
           \o (IF shapes[n].has
               THEN << [field_id |-> STATUS_FIELD_ID, entity_id |-> n, list_entry_id |-> n,
                        value |-> shapes[n].value, created_at |-> Time(0 - OldAge),
                        updated_at |-> Time(0 - OldAge)] >>
               ELSE <<>>)

InitStage ==
    \E n \in 1..MaxStageEntries :
      \E shapes \in [1..n -> StageShapes], sch \in StageSchemas :
        /\ orgs = SubSeq(ScanOrgs, 1, n)
        /\ entries = StageEntriesOf(shapes)
        /\ fieldValues = StageValuesOf(shapes, n)
        /\ schema = sch
        /\ now = 0
        /\ last = NoLast(SubSeq(ScanOrgs, 1, n), StageEntriesOf(shapes),
                         StageValuesOf(shapes, n))
        /\ nudges = NoScan
        /\ ncalls = 0
        /\ nscans = 0
        /\ resolved = NoStage
        /\ msg = NoMsg
        /\ race = NoRace

\* get_stage_name runs to its return for the organization of an entry
ResolveStage ==
    /\ ~resolved.ran
    /\ \E i \in 1..Len(entries), fails \in SUBSET {"get_list_fields", "get_field_values"} :
          \E out \in {get_stage_name(schema, fieldValues, entries[i].entity_id, fails)} :
            /\ resolved' = [ran |-> TRUE, org_id |-> entries[i].entity_id,
                            stage |-> out.stage, calls |-> out.calls]
            /\ UNCHANGED <<race, orgs, entries, fieldValues, schema, now, last, nudges, ncalls,
                           nscans, msg>>

NextStage == ResolveStage \/ Scan

SpecStage == InitStage /\ [][NextStage]_vars

----------------------------------------------------------------------------
(* send_nudge_messages, handle_message and handle_mention                   *)

MaxMsgs == 1
MaxMsgFails == 2

\* owner name -> Slack ID
OWNER_SLACK_MAP ==
    [n \in {"Emma McDonagh", "Shomik Dutta", "Allison Hinckley", "Leila Pirbay"} |->
        CASE n = "Emma McDonagh" -> "U02SC43GEH4"
          [] n = "Shomik Dutta" -> "U03HP4WKP62"
          [] n = "Allison Hinckley" -> "U07S6CLHPL1"
          [] OTHER -> "U08840SFVN1"]

\* a message posted: a reply in the channel of the event, or a nudge in the
\* nudge channel
Post(to, kind, org_id, mention, message) ==
    [to |-> to, kind |-> kind, org_id |-> org_id, mention |-> mention,
     message |-> message]

NoMessage == Msg("none", <<>>, "", <<>>, <<>>)

\* the nudge of one deal: the first owner is tagged when the CRM gives a name
\* that OWNER_SLACK_MAP knows
NudgeOf(deal, fails) ==
    LET owner_name ==
            IF deal.owners = <<>> THEN ""
            ELSE get_owner_name_from_id(deal.owners[1],
                                        Site("persons", deal.owners[1]) \in fails)
    IN  Post("nudges", "nudge", deal.org_id,
             IF owner_name # "" /\ owner_name \in DOMAIN OWNER_SLACK_MAP
             THEN OWNER_SLACK_MAP[owner_name] ELSE "",
             NoMessage)

\* send_nudge_messages with NUDGE_CHANNEL_ID set: [scan, posts]; a post that
\* fails is logged and left out
send_nudge_messages(c, fails) ==
    LET out == get_deals_needing_nudge(c, fails)
        sent == SelectSeq(out.deals,
                          LAMBDA d : Site("chat_postMessage", d.org_id) \notin fails)
    IN  [scan |-> out, posts |-> [i \in 1..Len(sent) |-> NudgeOf(sent[i], fails)]]

sNudgeTest == <<"!", "n", "u", "d", "g", "e", "-", "t", "e", "s", "t">>
sDealflow == "dealflow"

IgnoredSubtypes == {"bot_message", "message_changed", "message_deleted"}

\* event.get("text", "").strip()
TextOf(event) == Strip(event.text, Whitespace)

\* `not company_name and not domain`
NoCompany(info) == ~Truthy(info.company_name) /\ ~Truthy(info.domain)

\* what handle_message goes on to do with an event whose stripped text is
\* `text`, by its early returns; a channel_name of "" stands for
\* conversations_info raising
RouteOf(event, text) ==
    IF event.subtype \in IgnoredSubtypes THEN "none"
    ELSE IF Lower(text) = sNudgeTest THEN "scan"
    ELSE IF event.channel_name # sDealflow THEN "none"
    ELSE IF text = <<>> THEN "none"
    ELSE IF ~HasUrl(text) THEN "none"
    ELSE IF NoCompany(extract_company_info(text)) THEN "none"
    ELSE "reconcile"

Route(event) == RouteOf(event, TextOf(event))

\* the events drawn: sent by a user or by a bot, in #dealflow, in another
\* channel, or in one whose lookup fails
MsgTexts ==
    { <<"!", "n", "u", "d", "g", "e", "-", "t", "e", "s", "t">>,
      <<"!", "N", "u", "d", "g", "e", "-", "T", "e", "s", "t", " ">>,
      <<"h", "t", "t", "p", "s", ":", "/", "/", "a", "c", "m", "e", ".", "c", "o", "m">>,
      <<"w", "e", " ", "m", "i", "s", "s", "e", "d", " ", "h", "t", "t", "p", "s", ":", "/", "/", "w", "w", "w", ".", "a", "c", "m", "e", ".", "c", "o", "m", "/", "a", "b", "o", "u", "t">>,
      <<"A", "c", "m", "e">>,
      <<"A", "c", "m", "e", " ", "a", "c", "m", "e", ".", "c", "o", "m">>,
      <<>>,
      <<" ", ":", "/", "/", " ", "h", "t", "t", "p", "s", ":", "/", "/", " ">> }

Events ==
    {[type |-> "message", subtype |-> st, channel_name |-> ch, text |-> t, user |-> u] :
        st \in {"", "bot_message"}, ch \in {sDealflow, "random", ""}, t \in MsgTexts,
        u \in Users}

\* the call sites of send_nudge_messages that can fail
NudgeSites ==
    ScanSites \cup {Site("persons", p) : p \in DOMAIN Persons}
        \cup {Site("chat_postMessage", entries[i].entity_id) : i \in 1..Len(entries)}

\* the manual trigger: two replies around send_nudge_messages
HandleNudgeTest(event) ==
    \E fails \in {f \in SUBSET NudgeSites : Cardinality(f) <= MaxMsgFails} :
      \E out \in {send_nudge_messages([orgs |-> orgs, entries |-> entries,
                                       fieldValues |-> fieldValues, schema |-> schema,
                                       now |-> now], fails)} :
        /\ nudges' = [ran |-> TRUE, at |-> now, deals |-> out.scan.deals,
                      raised |-> out.scan.raised, calls |-> out.scan.calls]
        /\ msg' = [n |-> msg.n + 1, event |-> event, acted |-> "scan",
                   extracted |-> NoExtract, calls |-> out.scan.calls,
                   said |-> <<Post("reply", "running", 0, "", NoMessage)>>
                              \o out.posts
                              \o <<Post("reply", "complete", 0, "", NoMessage)>>]
        /\ UNCHANGED <<race, orgs, entries, fieldValues, schema, now, last, ncalls, nscans,
                       resolved>>

\* the arguments handle_message passes to process_company
ArgsOf(event, text, info) ==
    [search_term |-> info.company_name, domain |-> info.domain,
     is_missed |-> HasWord(Lower(text), MissedWords), slack_user_id |-> event.user]

\* a message of #dealflow with a URL: process_company on what
\* extract_company_info returns, and a reply with the result's message
HandleCompany(event) ==
    \E fails \in {f \in SUBSET FailPoints : Cardinality(f) <= MaxMsgFails},
       info \in {extract_company_info(TextOf(event))} :
      \E args \in {ArgsOf(event, TextOf(event), info)} :
        \E out \in {process_company([orgs |-> orgs, entries |-> entries,
                                     fieldValues |-> fieldValues, schema |-> schema,
                                     now |-> now],
                                    args.search_term, args.domain, args.is_missed,
                                    args.slack_user_id, fails)} :
          /\ orgs' = out.orgs
          /\ entries' = out.entries
          /\ fieldValues' = out.fieldValues
          /\ ncalls' = ncalls + 1
          /\ last' = [args |-> args, result |-> out.result, calls |-> out.calls,
                      pre |-> [orgs |-> orgs, entries |-> entries,
                               fieldValues |-> fieldValues],
                      repeat |-> IF last.args = args THEN last.result.status
                                 ELSE "none"]
          /\ msg' = [n |-> msg.n + 1, event |-> event, acted |-> "reconcile",
                     extracted |-> info, calls |-> out.calls,
                     said |-> <<Post("reply", "result", 0, event.user,
                                     out.result.message)>>]
          /\ UNCHANGED <<race, schema, now, nudges, nscans, resolved>>

\* handle_message runs to its return on an event
HandleMessage ==
    /\ msg.n < MaxMsgs
    /\ \E event \in Events :
        \E route \in {Route(event)} :
          CASE route = "scan" -> HandleNudgeTest(event)
            [] route = "reconcile" -> HandleCompany(event)
            [] OTHER ->
                /\ msg' = [n |-> msg.n + 1, event |-> event, acted |-> "none",
                           extracted |-> NoExtract, calls |-> <<>>, said |-> <<>>]
                /\ UNCHANGED <<race, orgs, entries, fieldValues, schema, now, last, nudges,
                               ncalls, nscans, resolved>>

\* handle_mention: a greeting in the thread of the mention
HandleMention ==
    /\ msg.n < MaxMsgs
    /\ \E ch \in {sDealflow, "random"}, u \in Users :
          /\ msg' = [n |-> msg.n + 1,
                     event |-> [type |-> "app_mention", subtype |-> "", channel_name |-> ch,
                                text |-> <<>>, user |-> u],
                     acted |-> "none", extracted |-> NoExtract, calls |-> <<>>,
                     said |-> <<Post("reply", "greeting", 0, "", NoMessage)>>]
          /\ UNCHANGED <<race, orgs, entries, fieldValues, schema, now, last, nudges, ncalls,
                         nscans, resolved>>

NextMsg == HandleMessage \/ HandleMention

SpecMsg == Init /\ [][NextMsg]_vars

----------------------------------------------------------------------------
(* extract_company_info on its own, on texts put together from parts        *)

\* what comes before the company, the company and what comes after it
TextPrefixes ==
    { <<>>,
      <<"w", "e", " ", "m", "i", "s", "s", "e", "d", " ">>,
      <<"A", " ">>,
      <<"-", " ">> }

TextCores ==
    { <<"h", "t", "t", "p", "s", ":", "/", "/", "a", "c", "m", "e", ".", "c", "o", "m">>,
      <<"h", "t", "t", "p", "s", ":", "/", "/", "w", "w", "w", ".", "a", "c", "m", "e", ".", "c", "o", "m", "/", "a", "b", "o", "u", "t">>,
      <<"h", "t", "t", "p", "s", ":", "/", "/", "a", "c", "m", "e", ".", "c", "o", "m", "/", "a", "b", "o", "u", "t">>,
      <<"h", "t", "t", "p", ":", "/", "/", "f", "o", "o", ".", "i", "o">>,
      <<"A", "c", "m", "e">>,
      <<"a", "c", "m", "e", ".", "c", "o", "m">>,
      <<"A", "c", "m", "e", " ", "R", "o", "b", "o", "t", "i", "c", "s">>,
      <<"h", "t", "t", "p", "s", ":", "/", "/", "a", ".", "c", "o", "m">>,
      <<" ">>,
      <<"T", "h", "i", "s", " ", "O", "n", "e">>,
      <<"h", "t", "t", "p", "s", ":", "/", "/", "a", "c", "m", "e">> }

TextSuffixes ==
    { <<>>,
      <<" ", "(", "v", "i", "a", " ", "B", "o", "b", ")">>,
      <<" ", "m", "i", "s", "s", "e", "d">>,
      <<":">> }

ExtractTexts == {p \o c \o x : p \in TextPrefixes, c \in TextCores, x \in TextSuffixes}

InitExtract ==
    \E t \in ExtractTexts :
        /\ orgs = <<>>
        /\ entries = <<>>
        /\ fieldValues = <<>>
        /\ schema = DefaultSchema
        /\ now = 0
        /\ last = NoLast(<<>>, <<>>, <<>>)
        /\ nudges = NoScan
        /\ ncalls = 0
        /\ nscans = 0
        /\ resolved = NoStage
        /\ race = NoRace
        /\ msg = [NoMsg EXCEPT !.event = [type |-> "text", subtype |-> "",
                                           channel_name |-> "", text |-> t,
                                           user |-> NoUser]]

\* extract_company_info runs on the text
Extract ==
    /\ msg.event.type = "text"
    /\ msg.acted = "none"
    /\ msg' = [msg EXCEPT !.n = 1, !.acted = "extract",
                          !.extracted = extract_company_info(msg.event.text)]
    /\ UNCHANGED <<race, orgs, entries, fieldValues, schema, now, last, nudges, ncalls, nscans,
                   resolved>>

NextExtract == Extract

SpecExtract == InitExtract /\ [][NextExtract]_vars

----------------------------------------------------------------------------
(* A scan of the scheduler thread while process_company runs: each takes    *)
(* one step per CRM call that the other can observe                         *)

MaxRaceOrgs == 1
MaxRaceCalls == 2
MaxRaceScans == 1
MaxRaceFails == 1

RaceUser == "U02SC43GEH4"

\* what a pipeline entry of the start holds for the status field: a stage of
\* the threshold table set 200 days ago, or nothing
RaceValuesOf(es, stale) ==
    IF es # <<>> /\ es[Len(es)].list_id = AFFINITY_LIST_ID /\ stale
    THEN << [field_id |-> STATUS_FIELD_ID, entity_id |-> es[Len(es)].entity_id,
             list_entry_id |-> es[Len(es)].id, value |-> TextValue("First Meeting"),
             created_at |-> Time(0 - OldAge), updated_at |-> Time(0 - OldAge)] >>
    ELSE <<>>

InitRace ==
    \E n \in 0..MaxRaceOrgs :
      \E pool \in Arrangements(OrgPool, n), member \in SUBSET (1..n), stale \in BOOLEAN :
        /\ orgs = WithIds(pool)
        /\ entries = InitEntries(pool, member, n)
        /\ fieldValues = RaceValuesOf(InitEntries(pool, member, n), stale)
        /\ schema = DefaultSchema
        /\ now = 0
        /\ last = NoLast(WithIds(pool), InitEntries(pool, member, n),
                         RaceValuesOf(InitEntries(pool, member, n), stale))
        /\ nudges = NoScan
        /\ ncalls = 0
        /\ nscans = 0
        /\ resolved = NoStage
        /\ msg = NoMsg
        /\ race = NoRace

\* the calls of an invocation that may fail
RaceFails == {f \in SUBSET FailPoints : Cardinality(f) <= MaxRaceFails}

\* the messages: a fresh one, then the same once more
RaceArgs ==
    IF ncalls = 0
    THEN {[search_term |-> pair[1], domain |-> pair[2], is_missed |-> m,
           slack_user_id |-> RaceUser] : pair \in ArgPairs, m \in BOOLEAN}
    ELSE {last.args}

\* process_company returns
RaceReturn(result, calls) ==
    /\ last' = [last EXCEPT !.result = result, !.calls = calls]
    /\ ncalls' = ncalls + 1
    /\ race' = [race EXCEPT !.rec = IdleRec]

\* process_company goes on to its next call
RaceGoOn(rec, calls) ==
    /\ last' = [last EXCEPT !.calls = calls]
    /\ ncalls' = ncalls
    /\ race' = [race EXCEPT !.rec = rec]

\* the invocation after its search and its check of the list, both answered
\* from the CRM as it is now: `started` is its record with the search in its
\* calls
RaceStarted(started, organization, fails) ==
    IF organization = NoOrg
    THEN /\ last' = started
         /\ ncalls' = ncalls
         /\ race' = [race EXCEPT !.rec = [IdleRec EXCEPT !.pc = "create", !.fails = fails]]
    ELSE IF check_org_in_list(entries, organization.id, AFFINITY_LIST_ID,
                              "get_organization_check" \in fails).in_list
    THEN \E out \in {ExistsBranch([orgs |-> orgs, entries |-> entries,
                                   fieldValues |-> fieldValues, schema |-> schema,
                                   now |-> now],
                                  organization,
                                  Append(started.calls,
                                         Call("get_organization_check", organization.id,
                                              "get_organization_check" \notin fails)),
                                  fails)} :
            /\ last' = [started EXCEPT !.result = out.result, !.calls = out.calls]
            /\ ncalls' = ncalls + 1
            /\ race' = race
    ELSE /\ last' = [started EXCEPT !.calls =
                        Append(started.calls,
                               Call("get_organization_check", organization.id,
                                    "get_organization_check" \notin fails))]
         /\ ncalls' = ncalls
         /\ race' = [race EXCEPT !.rec =
                        [IdleRec EXCEPT !.pc = "add", !.fails = fails,
                                        !.org_id = organization.id,
                                        !.org_name = organization.name,
                                        !.status = "added"]]

\* process_company is entered: the search, the best match and the check of
\* the list, and for an organization in the list the lookups of the stage,
\* the owners and the pass reasons; all of them read
RaceBegin ==
    /\ race.rec.pc = "idle"
    /\ ncalls < MaxRaceCalls
    /\ \E args \in RaceArgs, fails \in RaceFails :
        \E term \in {IF Truthy(args.domain) THEN args.domain ELSE args.search_term} :
          /\ IF "search_organization" \in fails
             THEN /\ last' = [args |-> args, result |-> ErrorResult("search_organization"),
                              calls |-> <<Call("search_organization", term, FALSE)>>,
                              pre |-> [orgs |-> orgs, entries |-> entries,
                                       fieldValues |-> fieldValues],
                              repeat |-> IF last.args = args THEN last.result.status
                                         ELSE "none"]
                  /\ ncalls' = ncalls + 1
                  /\ race' = race
             ELSE \E started \in {[args |-> args,
                                   result |-> Result("none", <<>>, "",
                                                     Msg("none", <<>>, "", <<>>, <<>>)),
                                   calls |-> <<>>,
                                   pre |-> [orgs |-> orgs, entries |-> entries,
                                            fieldValues |-> fieldValues],
                                   repeat |-> IF last.args = args THEN last.result.status
                                              ELSE "none"]} :
                    \E out \in {[started EXCEPT !.calls = <<Call("search_organization", term, TRUE)>>]} :
                      RaceStarted(out, BestMatch(search_organization(orgs, term),
                                                 args.search_term, args.domain), fails)
          /\ UNCHANGED <<orgs, entries, fieldValues, schema, now, nudges, nscans,
                         resolved, msg>>

\* create_organization
RaceCreate ==
    /\ race.rec.pc = "create"
    /\ IF "create_organization" \in race.rec.fails
       THEN /\ RaceReturn(ErrorResult("create_organization"),
                          Append(last.calls,
                                 Call("create_organization", last.args.search_term, FALSE)))
            /\ orgs' = orgs
       ELSE /\ orgs' = create_organization(orgs, last.args.search_term, last.args.domain)
            /\ RaceGoOn([race.rec EXCEPT !.pc = "add", !.org_id = Len(orgs) + 1,
                                         !.org_name = last.args.search_term,
                                         !.status = "created"],
                        Append(last.calls,
                               Call("create_organization", last.args.search_term, TRUE)))
    /\ UNCHANGED <<entries, fieldValues, schema, now, nudges, nscans, resolved, msg>>

\* add_to_list
RaceAdd ==
    /\ race.rec.pc = "add"
    /\ IF "add_to_list" \in race.rec.fails
       THEN /\ RaceReturn(ErrorResult("add_to_list"),
                          Append(last.calls, Call("add_to_list", race.rec.org_id, FALSE)))
            /\ entries' = entries
       ELSE /\ entries' = add_to_list(entries, AFFINITY_LIST_ID, race.rec.org_id, now)
            /\ RaceGoOn([race.rec EXCEPT !.pc = "owner", !.entry_id = Len(entries) + 1],
                        Append(last.calls, Call("add_to_list", race.rec.org_id, TRUE)))
    /\ UNCHANGED <<orgs, fieldValues, schema, now, nudges, nscans, resolved, msg>>

\* the owner of the new entry
RaceOwner ==
    /\ race.rec.pc = "owner"
    /\ \E own \in {SetOwner(fieldValues, last.calls, race.rec.org_id, race.rec.entry_id,
                            last.args.slack_user_id, now, race.rec.fails)} :
          /\ fieldValues' = own.fieldValues
          /\ RaceGoOn([race.rec EXCEPT !.pc = "missed"], own.calls)
    /\ UNCHANGED <<orgs, entries, schema, now, nudges, nscans, resolved, msg>>

\* the Missed status of the new entry, and the return
RaceMissed ==
    /\ race.rec.pc = "missed"
    /\ \E mis \in {SetMissed(fieldValues, last.calls, race.rec.org_id, race.rec.entry_id,
                             last.args.is_missed, now, race.rec.fails)} :
          /\ fieldValues' = mis.fieldValues
          /\ RaceReturn(Result(race.rec.status, race.rec.org_name, "",
                               AddedMsg(race.rec.status, race.rec.org_name, mis.done)),
                        mis.calls)
    /\ UNCHANGED <<orgs, entries, schema, now, nudges, nscans, resolved, msg>>

\* the call sites of a scan that may fail
RaceScanFails ==
    {{}} \cup {{Site("get_list_entries", AFFINITY_LIST_ID)}}
         \cup {{Site("get_list_entry_field_values", i)} : i \in 1..(MaxRaceOrgs + 1)}

\* the scan returns
RaceScanReturn(deals, raised, calls) ==
    /\ nudges' = [ran |-> TRUE, at |-> now, deals |-> deals, raised |-> raised,
                  calls |-> calls]
    /\ nscans' = nscans + 1
    /\ race' = [race EXCEPT !.scn.pc = "done", !.scn.calls = calls]

\* get_deals_needing_nudge is entered: the schema and the entries of the list
RaceScanBegin ==
    /\ race.scn.pc = "idle"
    /\ nscans < MaxRaceScans
    /\ \E fails \in RaceScanFails :
          IF Site("get_list_entries", AFFINITY_LIST_ID) \in fails
          THEN RaceScanReturn(<<>>, TRUE,
                              <<Call("get_list_fields", AFFINITY_LIST_ID, TRUE),
                                Call("get_list_entries", AFFINITY_LIST_ID, FALSE)>>)
          ELSE /\ race' = [race EXCEPT !.scn =
                              [IdleScn EXCEPT !.pc = "loop", !.fails = fails, !.k = 1,
                                  !.snapshot = get_list_entries(entries, AFFINITY_LIST_ID),
                                  !.calls = <<Call("get_list_fields", AFFINITY_LIST_ID, TRUE),
                                              Call("get_list_entries", AFFINITY_LIST_ID, TRUE)>>]]
               /\ UNCHANGED <<nudges, nscans>>
    /\ UNCHANGED <<orgs, entries, fieldValues, schema, now, last, ncalls, resolved, msg>>

\* whether the entry has a value for the status field now
HasStatusValue(entry) ==
    \E i \in 1..Len(fieldValues) :
        /\ fieldValues[i].list_entry_id = entry.id
        /\ fieldValues[i].field_id = ScanStatusField(schema).id

\* the body of the loop for the next entry fetched
RaceScanEntry ==
    /\ race.scn.pc = "loop"
    /\ race.scn.k <= Len(race.scn.snapshot)
    /\ \E this \in {ScanEntry([orgs |-> orgs, entries |-> entries,
                               fieldValues |-> fieldValues, schema |-> schema,
                               now |-> now],
                              race.scn.snapshot[race.scn.k], ScanStatusField(schema).id,
                              ScanOwnersFieldId(schema), ScanStatusOptions(schema),
                              race.scn.fails)} :
          IF this.kind = "raise"
          THEN RaceScanReturn(<<>>, TRUE, race.scn.calls \o this.calls)
          ELSE /\ race' = [race EXCEPT
                              !.scn.k = @ + 1,
                              !.scn.deals = @ \o this.deal,
                              !.scn.calls = @ \o this.calls,
                              !.scn.seen = Append(@,
                                  [entry_id |-> race.scn.snapshot[race.scn.k].id,
                                   has_status |-> HasStatusValue(race.scn.snapshot[race.scn.k]),
                                   emitted |-> this.kind = "emit"])]
               /\ UNCHANGED <<nudges, nscans>>
    /\ UNCHANGED <<orgs, entries, fieldValues, schema, now, last, ncalls, resolved, msg>>

\* the loop is over: the deals are returned
RaceScanEnd ==
    /\ race.scn.pc = "loop"
    /\ race.scn.k > Len(race.scn.snapshot)
    /\ RaceScanReturn(race.scn.deals, FALSE, race.scn.calls)
    /\ UNCHANGED <<orgs, entries, fieldValues, schema, now, last, ncalls, resolved, msg>>

NextRace ==
    \/ RaceBegin
    \/ RaceCreate
    \/ RaceAdd
    \/ RaceOwner
    \/ RaceMissed
    \/ RaceScanBegin
    \/ RaceScanEntry
    \/ RaceScanEnd

SpecRace == InitRace /\ [][NextRace]_vars

----------------------------------------------------------------------------
(* What the latest invocation did                                          *)

Called == last.result.status # "none"

FailedAt(at) == \E i \in 1..Len(last.calls) : last.calls[i].at = at /\ ~last.calls[i].ok

OkAt(at) == \E i \in 1..Len(last.calls) : last.calls[i].at = at /\ last.calls[i].ok

NoFailure == \A i \in 1..Len(last.calls) : last.calls[i].ok

\* the call sites whose call raised
FailedPoints == {last.calls[i].at : i \in {j \in 1..Len(last.calls) : ~last.calls[j].ok}}

WriteOps == {"create_organization", "add_to_list", "set_field_value"}

NoWriteIssued == \A i \in 1..Len(last.calls) : last.calls[i].op \notin WriteOps

CrmUnchanged ==
    /\ orgs = last.pre.orgs
    /\ entries = last.pre.entries
    /\ fieldValues = last.pre.fieldValues

\* the search result the invocation was given
FoundBefore ==
    search_organization(last.pre.orgs,
        IF Truthy(last.args.domain) THEN last.args.domain ELSE last.args.search_term)

\* the identifier of the organization the invocation went on with after a
\* successful search: the one it checked, 0 when it resolved none
ActedOn ==
    IF Len(last.calls) >= 2 /\ last.calls[2].at = "get_organization_check"
    THEN last.calls[2].arg ELSE 0

\* the pipeline entries of an organization
PipelineEntries(es, org_id) ==
    {i \in 1..Len(es) : es[i].entity_id = org_id /\ es[i].list_id = AFFINITY_LIST_ID}

\* the CRM state the invocation started from
PreCrm == [orgs |-> last.pre.orgs, entries |-> last.pre.entries,
           fieldValues |-> last.pre.fieldValues, schema |-> schema, now |-> now]

----------------------------------------------------------------------------
(* Claims                                                                  *)

C2_AtMostOneEntry ==
    \A o \in 1..Len(orgs) : Cardinality(PipelineEntries(entries, o)) <= 1

\* C3: a failed search, existence check, create_organization or add_to_list
\* makes the invocation return error, and no write call follows the failure.
C3_FailureAborts ==
    \A i \in 1..Len(last.calls) :
        (/\ ~last.calls[i].ok
         /\ last.calls[i].at \in {"search_organization", "get_organization_check",
                                  "create_organization", "add_to_list"})
            => /\ last.result.status = "error"
               /\ \A j \in (i + 1)..Len(last.calls) : last.calls[j].op \notin WriteOps

\* C4: when create_organization succeeds and add_to_list then fails, the
\* result is error, the new organization stays in the CRM without a list
\* entry, and the failed call is the last call of the invocation.
C4_NoRollback ==
    (OkAt("create_organization") /\ FailedAt("add_to_list"))
        => /\ last.result.status = "error"
           /\ Len(orgs) = Len(last.pre.orgs) + 1
           /\ SubSeq(orgs, 1, Len(last.pre.orgs)) = last.pre.orgs
           /\ orgs[Len(orgs)].name = last.args.search_term
           /\ entries = last.pre.entries
           /\ get_organization(entries, Len(orgs)) = <<>>
           /\ fieldValues = last.pre.fieldValues
           /\ last.calls[Len(last.calls)].at = "add_to_list"

C4_Witness ==
    /\ OkAt("create_organization")
    /\ FailedAt("add_to_list")
    /\ last.result.status = "error"

\* C5: when the organization the search resolves already has a pipeline
\* entry, the invocation issues no write call and leaves the organizations,
\* the list entries and the field values as they were.
C5_ExistsIsReadOnly ==
    (/\ Called
     /\ ~FailedAt("search_organization")
     /\ ActedOn # 0
     /\ PipelineEntries(last.pre.entries, ActedOn) # {})
        => NoWriteIssued /\ CrmUnchanged

C7_UnmappedOwnerSkipped ==
    (/\ Called
     /\ ~OwnerMapped(last.args.slack_user_id)
     /\ OkAt("add_to_list"))
        => /\ \A i \in 1..Len(last.calls) : last.calls[i].at # "set_owner"
           /\ Len(entries) = Len(last.pre.entries) + 1
           /\ last.result.status \in {"added", "created"}
           /\ \A i \in 1..Len(fieldValues) :
                 (fieldValues[i].list_entry_id = Len(entries))
                    => fieldValues[i].field_id # OWNERS_FIELD_ID

C7_Witness ==
    /\ last.args.slack_user_id = "U0GUEST"
    /\ last.result.status = "created"
    /\ FailedAt("set_status")

\* the resolution by strict priority: the first organization matching by
\* domain, else the first matching by name, else the first result
PriorityMatch(found, search_term, domain) ==
    LET byDomain == {i \in 1..Len(found) : DomainMatch(found[i], domain)}
        byName == {i \in 1..Len(found) : NameMatch(found[i], search_term)}
    IN  IF found = <<>> THEN NoOrg
        ELSE IF byDomain # {} THEN found[CHOOSE i \in byDomain : \A j \in byDomain : i <= j]
        ELSE IF byName # {} THEN found[CHOOSE i \in byName : \A j \in byName : i <= j]
        ELSE found[1]

\* C8: the organization an invocation goes on with is the one the strict
\* priority order selects from the search result, and none exactly when the
\* result is empty.
C8_PriorityResolution ==
    (Called /\ ~FailedAt("search_organization"))
        => ActedOn = PriorityMatch(FoundBefore, last.args.search_term, last.args.domain).id

\* C9: with every call succeeding the status is decided by the CRM state:
\* created iff the search returns nothing (one organization named search_term
\* with the given domain and one list entry for it are created), added iff
\* the resolved organization has no pipeline entry (one list entry and no
\* organization are created), exists iff it has one.
C9_StatusDetermined ==
    (Called /\ NoFailure)
        => /\ last.result.status \in {"created", "added", "exists"}
           /\ last.result.status = "created" <=> FoundBefore = <<>>
           /\ last.result.status = "added"
                <=> (ActedOn # 0 /\ PipelineEntries(last.pre.entries, ActedOn) = {})
           /\ last.result.status = "exists"
                <=> (ActedOn # 0 /\ PipelineEntries(last.pre.entries, ActedOn) # {})
           /\ ActedOn # 0 => \E i \in 1..Len(FoundBefore) : FoundBefore[i].id = ActedOn
           /\ last.result.status = "created"
                => /\ orgs = Append(last.pre.orgs,
                                    [id |-> Len(last.pre.orgs) + 1,
                                     name |-> last.args.search_term,
                                     domain |-> last.args.domain, domains |-> {}])
                   /\ Len(entries) = Len(last.pre.entries) + 1
                   /\ SubSeq(entries, 1, Len(last.pre.entries)) = last.pre.entries
                   /\ entries[Len(entries)].entity_id = Len(orgs)
                   /\ entries[Len(entries)].list_id = AFFINITY_LIST_ID
           /\ last.result.status = "added"
                => /\ orgs = last.pre.orgs
                   /\ Len(entries) = Len(last.pre.entries) + 1
                   /\ SubSeq(entries, 1, Len(last.pre.entries)) = last.pre.entries
                   /\ entries[Len(entries)].entity_id = ActedOn
                   /\ entries[Len(entries)].list_id = AFFINITY_LIST_ID
           /\ last.result.status = "exists" => CrmUnchanged

C9_Witness ==
    /\ NoFailure
    /\ last.result.status = "created"
    /\ last.args.domain = dAcme
    /\ last.repeat = "none"

\* C10: every deal a scan returns has a stage that is a key of the threshold
\* table and has been in it for at least that stage's threshold in days.
C10_OnlyThresholdStages ==
    \A i \in 1..Len(nudges.deals) :
        /\ nudges.deals[i].status \in DOMAIN STAGE_THRESHOLDS
        /\ nudges.deals[i].days_in_stage >= STAGE_THRESHOLDS[nudges.deals[i].status]

\* a scan that nudged one deal and left alone one that has been Passed for
\* 200 days
C10_Witness ==
    /\ nudges.ran
    /\ Len(nudges.deals) = 1
    /\ nudges.deals[1].status = "First Meeting"
    /\ nudges.deals[1].days_in_stage = 14
    /\ \E i \in 1..Len(fieldValues) :
          /\ fieldValues[i].value = TextValue("Passed")
          /\ fieldValues[i].updated_at = Time(0 - OldAge)

----------------------------------------------------------------------------
(* What the latest scan saw                                                *)

\* the pipeline entries the scan iterates over
Scanned == get_list_entries(entries, AFFINITY_LIST_ID)

\* the status, timestamp and owners the scan reads from an entry's values
ScanAcc(e) ==
    ScanFieldValues(get_list_entry_field_values(fieldValues, e.id),
                    ScanStatusField(schema).id, ScanOwnersFieldId(schema),
                    ScanStatusOptions(schema),
                    [current_status |-> "", status_updated_at |-> NoTime, owners |-> <<>>])

\* the whole days between the entry's status timestamp and the scan
DwellDays(e) ==
    (nudges.at - StatusDate(ScanAcc(e).status_updated_at, e.created_at).t) \div UnitsPerDay

\* the entry has a stage of the threshold table and a timestamp that parses
Eligible(e) ==
    /\ NeedsThreshold(ScanAcc(e).current_status)
    /\ StatusDate(ScanAcc(e).status_updated_at, e.created_at).ok

ScanCallFailed(op, id) ==
    \E i \in 1..Len(nudges.calls) :
        nudges.calls[i].op = op /\ nudges.calls[i].arg = id /\ ~nudges.calls[i].ok

Nudged(e) == \E i \in 1..Len(nudges.deals) : nudges.deals[i].org_id = e.entity_id

ScanCallsOk == \A i \in 1..Len(nudges.calls) : nudges.calls[i].ok

\* the entry has been in a stage of the threshold table for at least the
\* threshold of the stage
MeetsThreshold(e) ==
    /\ Eligible(e)
    /\ DwellDays(e) >= STAGE_THRESHOLDS[ScanAcc(e).current_status]

\* C12: in a scan whose calls are all answered, every entry that meets the
\* threshold of its stage is returned, whatever timestamps the other entries
\* of the list have: an entry with no timestamp that parses is skipped alone.
C12_UnparsableSkippedAlone ==
    (nudges.ran /\ ScanCallsOk)
        => \A k \in 1..Len(Scanned) : MeetsThreshold(Scanned[k]) => Nudged(Scanned[k])

\* no field of the schema is named stage, status or deal stage
NoStageField == \A i \in 1..Len(schema) : Lower(schema[i].name) \notin StageFieldNames

\* C13: when no field of the schema is named stage, status or deal stage,
\* get_stage_name returns "Unknown" for every entry and a scan returns no
\* deal, whatever values and ages the entries have.
C13_NoStageFieldNoNudge ==
    NoStageField
        => /\ resolved.ran => resolved.stage = "Unknown"
           /\ nudges.ran => nudges.deals = <<>>

\* both ran on a list without a stage field whose entry has been in First
\* Meeting for 200 days
C13_Witness ==
    /\ NoStageField
    /\ resolved.ran
    /\ resolved.stage = "Unknown"
    /\ nudges.ran
    /\ ScanCallsOk
    /\ \E i \in 1..Len(fieldValues) :
          /\ fieldValues[i].entity_id = resolved.org_id
          /\ fieldValues[i].field_id = STATUS_FIELD_ID
          /\ fieldValues[i].value = TextValue("First Meeting")

\* C14: a message event from a channel other than #dealflow causes no CRM
\* call and no posted message, whatever its text; and process_company runs
\* only for a text that contains a URL.
C14_OnlyMonitoredChannel ==
    (msg.event.type = "message")
        => /\ msg.event.channel_name # sDealflow
                => /\ msg.acted = "none"
                   /\ msg.calls = <<>>
                   /\ msg.said = <<>>
           /\ msg.acted = "reconcile" => HasUrl(msg.event.text)

----------------------------------------------------------------------------
(* The text extractor                                                       *)

Extracted == msg.acted = "extract"

\* the text has no http(s) URL and no bare token.tld of the allow-list
NoUrlNoDomain(text) == ~HasUrl(text) /\ BareDomain(text) = <<>>

\* `a` is `b` with some characters left out
RECURSIVE IsSubseq(_, _)
IsSubseq(a, b) ==
    IF a = <<>> THEN TRUE
    ELSE IF b = <<>> THEN FALSE
    ELSE IF Head(a) = Head(b) THEN IsSubseq(Tail(a), Tail(b))
    ELSE IsSubseq(a, Tail(b))

\* nothing of the text is for the cleaning to take: no stop word, no
\* parenthesis, no scheme, no punctuation at either end
PlainText(text) ==
    /\ ~HasWord(Lower(text), StopWords)
    /\ \A i \in 1..Len(text) : text[i] \notin {"(", ")"} /\ SchemeLen(text, i) = 0
    /\ Strip(text, Whitespace) = Strip(text, StripChars)

\* C15 as stated: for a text with no URL and no bare domain, extract returns
\* domain None and a company name equal to the text with only the
\* surrounding whitespace trimmed
C15_NameIsTrimmedInput ==
    (Extracted /\ NoUrlNoDomain(msg.event.text))
        => /\ msg.extracted.domain = <<>>
           /\ msg.extracted.company_name = Strip(msg.event.text, Whitespace)

\* C15 amended: for a text with no URL and no bare domain, extract returns
\* domain None and a company name that is the trimmed text with the
\* scheme prefixes, parenthetical asides, stop words and edge punctuation
\* left out: it holds no stop word, and it equals the trimmed text when the
\* text has none of those
C15_NameIsCleanedInput ==
    (Extracted /\ NoUrlNoDomain(msg.event.text))
        => /\ msg.extracted.domain = <<>>
           /\ IsSubseq(msg.extracted.company_name, Strip(msg.event.text, Whitespace))
           /\ ~HasWord(Lower(msg.extracted.company_name), StopWords)
           /\ PlainText(msg.event.text)
                  => msg.extracted.company_name = Strip(msg.event.text, Whitespace)

\* a text with stop words and no domain was cleaned to a shorter name
C15_Witness ==
    /\ Extracted
    /\ NoUrlNoDomain(msg.event.text)
    /\ HasWord(Lower(msg.event.text), StopWords)
    /\ msg.extracted.company_name # <<>>
    /\ msg.extracted.company_name # Strip(msg.event.text, Whitespace)

\* the host of the first URL of the text: what follows the scheme up to the
\* next "/" or blank
UrlStart(text) == Leftmost({i \in 1..Len(text) : SchemeLen(text, i) > 0})

UrlHost(text) ==
    SubSeq(text, UrlStart(text) + SchemeLen(text, UrlStart(text)),
           RunEnd([j \in 1..Len(text) |-> text[j] \notin {"/", " "}],
                  UrlStart(text) + SchemeLen(text, UrlStart(text))))

\* the end of the first URL of the text: its last character before a blank
UrlEnd(text) == RunEnd([j \in 1..Len(text) |-> text[j] # " "], UrlStart(text))

\* h.tld: two labels, the second of letters
IsHostTld(host) ==
    \E d \in 2..(Len(host) - 1) :
        /\ host[d] = "."
        /\ \A i \in 1..(d - 1) : HostChar(host[i])
        /\ \A i \in (d + 1)..Len(host) : IsLetter(host[i])

\* the text is one URL and stop words
OnlyUrlAndStopWords(text) ==
    Strip(RemoveWords(SubSeq(text, 1, UrlStart(text) - 1)
                      \o SubSeq(text, UrlEnd(text) + 1, Len(text)), StopWords),
          Whitespace) = <<>>

\* C16: for a text with a URL whose host is h.tld, extract returns that host
\* as the domain, the path left out, and when the text is only the URL and
\* stop words the company name is the capitalized first label of the host
C16_UrlHostAndName ==
    (Extracted /\ HasUrl(msg.event.text) /\ IsHostTld(UrlHost(msg.event.text)))
        => /\ msg.extracted.domain = UrlHost(msg.event.text)
           /\ OnlyUrlAndStopWords(msg.event.text)
                  => msg.extracted.company_name
                         = Title(SplitFirst(UrlHost(msg.event.text), "."))

----------------------------------------------------------------------------
(* Best-effort field sets                                                   *)

\* the latest invocation added a list entry and a field set after it failed
FieldSetFailed == OkAt("add_to_list") /\ (FailedAt("set_owner") \/ FailedAt("set_status"))

\* the entry the latest invocation added is in the list
EntryStays ==
    /\ Len(entries) = Len(last.pre.entries) + 1
    /\ SubSeq(entries, 1, Len(last.pre.entries)) = last.pre.entries

\* C17: on the added and created paths a failed owner set or a failed Missed
\* status set leaves the new entry in the list and the result added or
\* created; a failed owner set is followed by the attempt of the Missed
\* set of a missed deal; after a failed Missed set the message does not say
\* the deal was recorded as Missed.
C17_FieldSetsBestEffort ==
    FieldSetFailed
        => /\ last.result.status \in {"added", "created"}
           /\ EntryStays
           /\ (FailedAt("set_owner") /\ last.args.is_missed)
                  => (OkAt("set_status") \/ FailedAt("set_status"))
           /\ FailedAt("set_status")
                  => last.result.message.kind \in {"added_as_new_lead", "created_as_new_lead"}

\* the owner set and the Missed set both failed after an entry was added
C17_Witness ==
    /\ OkAt("add_to_list")
    /\ FailedAt("set_owner")
    /\ FailedAt("set_status")
    /\ last.result.status \in {"added", "created"}
    /\ EntryStays

----------------------------------------------------------------------------
(* Failed calls of a scan                                                   *)

\* the schema and the entries of the list were fetched
ListFetched ==
    /\ ~ScanCallFailed("get_list_fields", AFFINITY_LIST_ID)
    /\ ~ScanCallFailed("get_list_entries", AFFINITY_LIST_ID)

\* every entry with a stage of the threshold table has a timestamp that parses
DatesParse ==
    \A k \in 1..Len(Scanned) :
        NeedsThreshold(ScanAcc(Scanned[k]).current_status) => Eligible(Scanned[k])

\* no call made for the entry failed
EntryCallsOk(e) ==
    /\ ~ScanCallFailed("get_list_entry_field_values", e.id)
    /\ ~ScanCallFailed("get_organization", e.entity_id)

\* C18: in a scan that fetched the schema and the entries, where every
\* timestamp parses, a failed call for the field values or for the
\* organization of one entry skips that entry alone: every entry that meets
\* the threshold of its stage and had no failed call of its own is returned.
C18_FailedCallSkipsOneEntry ==
    (nudges.ran /\ ListFetched /\ DatesParse)
        => \A k \in 1..Len(Scanned) :
              (MeetsThreshold(Scanned[k]) /\ EntryCallsOk(Scanned[k]))
                  => Nudged(Scanned[k])

----------------------------------------------------------------------------
(* The stage as the resolver and as the scan decode it                      *)

\* the sentinels of get_stage_name
StageSentinels == {"Unknown", "Not set"}

\* get_stage_name ran and returned a label, not a sentinel
ResolvedLabel == resolved.ran /\ resolved.stage \notin StageSentinels

\* the entries of the organization that get_stage_name was asked about
ResolvedEntries == {k \in 1..Len(Scanned) : Scanned[k].entity_id = resolved.org_id}

\* C19: when get_stage_name returns a label for the organization of an
\* entry, the scan decodes the same label for that entry under the same
\* schema and the same field values.
C19_ScanDecodesAsResolver ==
    ResolvedLabel
        => \A k \in ResolvedEntries : ScanAcc(Scanned[k]).current_status = resolved.stage

----------------------------------------------------------------------------
(* The stage resolver                                                       *)

\* get_stage_name ran and both of its calls were answered
ResolvedOk == resolved.ran /\ \A i \in 1..Len(resolved.calls) : resolved.calls[i].ok

\* the positions of the schema fields with a stage name
StageHits == {i \in 1..Len(schema) : Lower(schema[i].name) \in StageFieldNames}

\* the first of them in schema order
FirstStageField == schema[Leftmost(StageHits)]

\* the positions of the values the organization asked about has for that field
StageValueHits ==
    {j \in 1..Len(fieldValues) :
        /\ fieldValues[j].entity_id = resolved.org_id
        /\ fieldValues[j].field_id = FirstStageField.id}

FirstStageValue == fieldValues[Leftmost(StageValueHits)].value

\* the label the dropdown of the first stage field has for a code
InTable(code) ==
    \E i \in 1..Len(FirstStageField.dropdown_options) :
        FirstStageField.dropdown_options[i].id = code

LabelIs(code, label) ==
    \E i \in 1..Len(FirstStageField.dropdown_options) :
        /\ FirstStageField.dropdown_options[i].id = code
        /\ FirstStageField.dropdown_options[i].text = label

\* C20 as stated: the resolver takes the first schema field named stage,
\* status or deal stage and decodes the value of the entry for it: a
\* structured text gives its text, a code of the dropdown its label, a code
\* absent from the dropdown or another scalar the stringified raw value, and
\* no value "Not set".
C20_ResolverDecodes ==
    (ResolvedOk /\ StageHits # {})
        => IF StageValueHits = {} THEN resolved.stage = "Not set"
           ELSE CASE FirstStageValue.kind = "text"
                        -> resolved.stage = FirstStageValue.text
                  [] FirstStageValue.kind = "int" /\ InTable(FirstStageValue.num)
                        -> LabelIs(FirstStageValue.num, resolved.stage)
                  [] FirstStageValue.kind = "int" /\ ~InTable(FirstStageValue.num)
                        -> resolved.stage = ToString(FirstStageValue.num)
                  [] FirstStageValue.kind = "str"
                        -> resolved.stage = FirstStageValue.text
                  [] OTHER -> resolved.stage = "Not set"

\* C20 amended: as above, but a scalar is stringified only when it is truthy:
\* the code 0 when absent from the dropdown and the empty string give
\* "Not set", as a value of None does.
C20_ResolverDecodesTruthy ==
    (ResolvedOk /\ StageHits # {})
        => IF StageValueHits = {} THEN resolved.stage = "Not set"
           ELSE CASE FirstStageValue.kind = "text"
                        -> resolved.stage = FirstStageValue.text
                  [] FirstStageValue.kind = "int" /\ InTable(FirstStageValue.num)
                        -> LabelIs(FirstStageValue.num, resolved.stage)
                  [] FirstStageValue.kind = "int" /\ ~InTable(FirstStageValue.num)
                        -> resolved.stage = IF FirstStageValue.num = 0 THEN "Not set"
                                            ELSE ToString(FirstStageValue.num)
                  [] FirstStageValue.kind = "str"
                        -> resolved.stage = IF FirstStageValue.text = "" THEN "Not set"
                                            ELSE FirstStageValue.text
                  [] OTHER -> resolved.stage = "Not set"

\* on a schema with two stage-like fields the resolver decoded a code by the
\* dropdown of the first, where the second has another label for it
C20_Witness ==
    /\ ResolvedOk
    /\ Cardinality(StageHits) = 2
    /\ StageValueHits # {}
    /\ FirstStageValue.kind = "int"
    /\ resolved.stage = "Engaged"
    /\ \E i \in 1..Len(StatusField.dropdown_options) :
          /\ StatusField.dropdown_options[i].id = FirstStageValue.num
          /\ StatusField.dropdown_options[i].text # resolved.stage

----------------------------------------------------------------------------
(* Best-effort lookups of the exists branch                                 *)

\* a call of get_stage_name failed
StageLookupFailed == FailedAt("get_list_fields") \/ FailedAt("get_field_values")

\* a call of get_list_entry_details failed
DetailLookupFailed ==
    FailedAt("get_organization_details") \/ FailedAt("get_list_entry_field_values")

\* the lookup of an owner's name failed
OwnerLookupFailed ==
    \E i \in 1..Len(last.calls) :
        /\ last.calls[i].at = "persons"
        /\ ~last.calls[i].ok
        /\ last.calls[i].arg \in DOMAIN Persons

\* C21: a failed call of the stage lookup, of the detail lookup or of an
\* owner's name lookup leaves the result exists: the stage is "Unknown" after
\* a failed stage lookup, and the message has no owner and no pass reason
\* after a failed detail lookup, no owner after a failed name lookup.
C21_ExistsSurvivesLookupFailures ==
    (StageLookupFailed \/ DetailLookupFailed \/ OwnerLookupFailed)
        => /\ last.result.status = "exists"
           /\ last.result.message.kind = "already_in_pipeline"
           /\ StageLookupFailed
                  => /\ last.result.stage = "Unknown"
                     /\ last.result.message.stage = "Unknown"
           /\ DetailLookupFailed
                  => /\ last.result.message.owners = <<>>
                     /\ last.result.message.pass_reasons = <<>>
           /\ OwnerLookupFailed => last.result.message.owners = <<>>
           /\ CrmUnchanged

\* the stage lookup and the detail lookup both failed and the result is exists
C21_Witness ==
    /\ StageLookupFailed
    /\ DetailLookupFailed
    /\ last.result.status = "exists"
    /\ last.result.stage = "Unknown"

----------------------------------------------------------------------------
(* A scan interleaved with invocations of process_company                   *)

\* the scan in progress, or the one that returned, issued no write call
ScanIssuedNoWrite ==
    \A i \in 1..Len(race.scn.calls) : race.scn.calls[i].op \notin WriteOps

\* no organization has two entries in the deal pipeline
OneEntryPerOrg ==
    \A id \in 1..Len(orgs) :
        Cardinality({i \in 1..Len(entries) :
                        /\ entries[i].entity_id = id
                        /\ entries[i].list_id = AFFINITY_LIST_ID}) <= 1

\* no deal was emitted for an entry that had no status value when the scan
\* read its values
NoDealWithoutStatus ==
    \A i \in 1..Len(race.scn.seen) :
        ~race.scn.seen[i].has_status => ~race.scn.seen[i].emitted

\* C22: however the steps of a scan and of invocations of process_company
\* interleave, the scan issues no write call, no organization comes to have
\* two entries in the pipeline, and the scan emits no deal for an entry that
\* it saw created and not yet given a status.
C22_ScanInterleavingSafe ==
    /\ ScanIssuedNoWrite
    /\ OneEntryPerOrg
    /\ NoDealWithoutStatus

----------------------------------------------------------------------------
(* Totality of process_company                                              *)

\* handle_message went on to process_company
Reconciled == msg.acted = "reconcile"

\* C23: whatever calls fail, an invocation of process_company returns a
\* result whose status is exists, added, created or error and which has a
\* message, and handle_message then posts one reply, with that message.
C23_ReconcileTotal ==
    Reconciled
        => /\ last.result.status \in {"exists", "added", "created", "error"}
           /\ last.result.message.kind # "none"
           /\ Len(msg.said) = 1
           /\ msg.said[1].to = "reply"
           /\ msg.said[1].message = last.result.message
           /\ msg.calls = last.calls

\* a call failed, the result is error and one reply was posted
C23_Witness ==
    /\ Reconciled
    /\ Cardinality(FailedPoints) >= 1
    /\ last.result.status = "error"
    /\ Len(msg.said) = 1

----------------------------------------------------------------------------
(* Recovery after a partial create                                          *)

\* the latest invocation created the organization and failed to add it to
\* the list
PartialCreate ==
    /\ last.result.status = "error"
    /\ OkAt("create_organization")
    /\ FailedAt("add_to_list")

\* the organization a partial create left behind: the newest one
Orphan == orgs[Len(orgs)]

\* the step is an invocation with the arguments of the one before it, all
\* of its calls succeed and its search returns the organization left behind
RetryAfterPartialCreate ==
    /\ PartialCreate
    /\ ncalls' = ncalls + 1
    /\ last'.args = last.args
    /\ NoFailure'
    /\ \E i \in 1..Len(FoundBefore') : FoundBefore'[i].id = Orphan.id

\* C24: an invocation with the same arguments that follows one which created
\* the organization and failed to add it to the list, its search returning
\* that organization and all its calls succeeding, returns added for that
\* organization, creates no organization, and leaves the organization with
\* exactly one entry in the pipeline list.
C24_RecoversPartialCreate ==
    [][RetryAfterPartialCreate
        => /\ last'.result.status = "added"
           /\ ActedOn' = Orphan.id
           /\ last'.result.company = Orphan.name
           /\ orgs' = orgs
           /\ Cardinality(PipelineEntries(entries', Orphan.id)) = 1
           /\ Cardinality(PipelineEntries(entries, Orphan.id)) = 0]_vars

\* the second of two invocations with the same arguments ran without a failed
\* call after the first returned error, and went on with the newest
\* organization, which had the searched name and no entry in the list
C24_Witness ==
    /\ Called
    /\ last.repeat = "error"
    /\ NoFailure
    /\ last.pre.orgs # <<>>
    /\ ActedOn = Len(last.pre.orgs)
    /\ last.pre.orgs[Len(last.pre.orgs)].name = last.args.search_term
    /\ PipelineEntries(last.pre.entries, ActedOn) = {}
    /\ last.result.status = "added"
    /\ orgs = last.pre.orgs

====
